---- MODULE Spec2Model ----
(***************************************************************************)
(* Verification model of prx-memory.                                       *)
(*                                                                         *)
(* Part I  : the session stream manager of the MCP server                  *)
(*           (crates/prx-memory-mcp/src/server.rs, the session methods).   *)
(* Part II : the storage backend and the governed write pipeline           *)
(*           (crates/prx-memory-storage/src/lib.rs and                     *)
(*            store_layer_with_rules / exec_memory_store_dual).            *)
(*                                                                         *)
(* Every handler that runs under one mutex is one action.  Wall-clock      *)
(* time is the variable clock; a handler reads now_ms() before it takes    *)
(* its lock, so the value it works with may be one tick old.               *)
(***************************************************************************)
EXTENDS Integers, Sequences, FiniteSets, TLC

VARIABLES
    clock,            \* wall clock, what now_ms() returns
    sessions,         \* McpServer.sessions : session id -> SessionState
    session_counter,  \* McpServer.session_counter
    created,          \* history: every session id create_session returned
    issued,           \* history: per session, the seqs append returned, in order
    acked,            \* history: per session, the largest ack a successful collect carried
    last,             \* history: the request handled last and its response
    stream,           \* the SSE request the server is handling, or handled last
    entries,          \* PersistentMemoryStore.entries (what list and recall see)
    next_id,          \* PersistentMemoryStore.next_id
    disk,             \* the entries in the database file, as last persisted
    auto_store_counter, \* McpServer.auto_store_counter
    assigned,         \* history: every id store() gave to an entry, in order,
                      \* and whether a tool call returned it to its caller
    allowed_scope_rules, \* ScopeManager.allowed_scope_rules, in the order configured
    forgotten,        \* history: the ids for which memory_forget answered deleted = true
    reply,            \* history: the memory tool call handled last and its response
    embed_runtime,    \* EMBED_RUNTIME: the embedding cache and the rate limiter
    recall_scope,     \* MetricsRegistry.recall_scope, a BoundedLabelCounter
    measured,         \* history: the call on embed_runtime or recall_scope
                      \* handled last, and what the calls before it did
    handlers          \* the threads inside handle_request: where each stands,
                      \* the locks it holds, and what the readers have seen

sessVars == <<sessions, session_counter, created, issued, acked, last, stream>>

storeVars == <<entries, next_id, disk, auto_store_counter, assigned,
               allowed_scope_rules, forgotten, reply>>

runtimeVars == <<embed_runtime, recall_scope, measured, handlers>>

(***************************************************************************)
(* Bounds of the model.                                                    *)
(***************************************************************************)
TickMs      == 500    \* the clock advances in steps of TickMs
MaxTicks    == 2      \* number of clock steps explored
MaxSessions == 1      \* sessions created per run of SessSpec
MaxAppends  == 2      \* events appended per run of SessSpec
LeaseSessions == 2    \* sessions created per run of LeaseSpec
LeaseAppends  == 1    \* events appended per run of LeaseSpec
SessLag     == 0      \* ticks between now_ms() and the lock, SessSpec
LeaseLag    == 1      \* ticks between now_ms() and the lock, LeaseSpec
MaxFrom     == 2      \* largest from / ack argument of a collect
MaxLimit    == 2      \* largest limit argument of a collect
MaxIds      == 2      \* ids assigned per run of StoreSpec
StoreTicks  == 1      \* number of clock steps explored by StoreSpec
RatioIds    == 1      \* ids assigned per run of RatioSpec
PreFacts    == 7      \* facts in the scope when RatioSpec starts
PreDecisions == 3     \* decisions in the scope when RatioSpec starts
MaxFaultAt  == 1      \* the file system may fail after 0..MaxFaultAt writes of a call
MaintPreload == 3     \* entries in the store when MaintSpec starts, at most
MaintIds    == 1      \* tool calls that store, per run of MaintSpec
VerifyIds   == 2      \* ids assigned per run of VerifySpec
AclIds      == 2      \* ids assigned per run of AclSpec
FlowIds     == 2      \* ids assigned per run of FlowSpec
FlowTicks   == 1      \* clock ticks per run of FlowSpec
CapFill     == 511    \* events queued in the session when CapSpec starts
CapAppends  == 3      \* events appended per run of CapSpec

Max(a, b) == IF a >= b THEN a ELSE b
Min(a, b) == IF a <= b THEN a ELSE b

Restrict(f, S) == [x \in S |-> f[x]]

Take(s, n) == SubSeq(s, 1, Min(n, Len(s)))

(***************************************************************************)
(* Part I - session stream manager                                         *)
(***************************************************************************)

\* PRX_MEMORY_STREAM_SESSION_TTL_MS, clamped to 1000..86400000; the model
\* runs the smallest legal configuration (the one the expiry test uses).
session_ttl_ms == 1000

\* while state.events.len() > 512 { pop_front }
EventQueueCap == 512

\* Option<u64> is a sequence of length 0 (None) or 1 (Some(k)).
None == <<>>
Some(k) == <<k>>

\* format!("sess-{}-{}", now_ms(), *counter)
SessionId(now, counter) == <<now, counter>>

\* an id no create_session call can return (the counter starts at 1)
UnknownSession == <<0, 0>>

SessionAccessError == {"NotFound", "Expired", "Poisoned"}

\* the values now_ms() may have returned to a handler that is now entering
\* its critical section: it was read before the lock was taken
\* (up to lag ticks earlier)
NowReads(lag) == {clock - k * TickMs : k \in {j \in 0..lag : j * TickMs <= clock}}

cleanup_expired_sessions_locked_bad(sess, now) ==
    Restrict(sess, {s \in DOMAIN sess : sess[s].last_touch_ms > now})

\* sessions.retain(|_, state| state.lease_expires_ms > now)
cleanup_expired_sessions_locked(sess, now) ==
    Restrict(sess, {s \in DOMAIN sess : sess[s].lease_expires_ms > now})

\* SessionState of a session that create_session has just inserted
NewSessionState(now) ==
    [ next_seq         |-> 1,
      events           |-> <<>>,
      last_touch_ms    |-> now,
      acked_seq        |-> 0,
      lease_expires_ms |-> now + session_ttl_ms ]

\* create_session: returns the new table and (id, lease_expires_ms)
create_session(sess, counter, now) ==
    LET id      == SessionId(now, counter)
        cleaned == cleanup_expired_sessions_locked(sess, now)
        state   == NewSessionState(now)
    IN  [ sessions |-> [s \in DOMAIN cleaned \cup {id} |->
                            IF s = id THEN state ELSE cleaned[s]],
          id       |-> id,
          lease    |-> state.lease_expires_ms ]

\* The common prologue of renew / append / collect: lazy GC, lookup, and the
\* explicit lease check.  Returns the table the handler continues with and
\* the error it returns early with ("" when the session is usable).
SessionLookup(sess, sid, now) ==
    LET cleaned == cleanup_expired_sessions_locked(sess, now)
    IN  IF sid \notin DOMAIN cleaned
        THEN [sessions |-> cleaned, err |-> "NotFound"]
        ELSE IF cleaned[sid].lease_expires_ms <= now
        THEN [sessions |-> Restrict(cleaned, DOMAIN cleaned \ {sid}),
              err      |-> "Expired"]
        ELSE [sessions |-> cleaned, err |-> ""]

renew_session_lease_bad(sess, sid, now) ==
    IF sid \notin DOMAIN sess
    THEN [sessions |-> sess, ok |-> FALSE, err |-> "NotFound", lease |-> 0]
    ELSE [ sessions |-> [sess EXCEPT ![sid].last_touch_ms = now,
                                      ![sid].lease_expires_ms = now + session_ttl_ms],
           ok |-> TRUE, err |-> "", lease |-> now + session_ttl_ms ]

\* renew_session_lease
renew_session_lease(sess, sid, now) ==
    LET lk == SessionLookup(sess, sid, now)
    IN  IF lk.err # ""
        THEN [sessions |-> lk.sessions, ok |-> FALSE, err |-> lk.err, lease |-> 0]
        ELSE [ sessions |-> [lk.sessions EXCEPT
                               ![sid].last_touch_ms = now,
                               ![sid].lease_expires_ms = now + session_ttl_ms],
               ok |-> TRUE, err |-> "", lease |-> now + session_ttl_ms ]

\* while state.events.len() > 512 { let _ = state.events.pop_front(); }
RECURSIVE TrimToCap(_)
TrimToCap(q) == IF Len(q) > EventQueueCap THEN TrimToCap(Tail(q)) ELSE q

append_session_event_uncapped(sess, sid, now) ==
    LET lk == SessionLookup(sess, sid, now)
    IN  IF lk.err # ""
        THEN [sessions |-> lk.sessions, ok |-> FALSE, err |-> lk.err,
              seq |-> 0, lease |-> 0]
        ELSE LET st  == lk.sessions[sid]
                 seq == st.next_seq
                 ev  == [seq |-> seq]
             IN  [ sessions |-> [lk.sessions EXCEPT ![sid] =
                      [ next_seq         |-> st.next_seq + 1,
                        events           |-> Append(st.events, ev),
                        last_touch_ms    |-> now,
                        acked_seq        |-> st.acked_seq,
                        lease_expires_ms |-> now + session_ttl_ms ]],
                   ok |-> TRUE, err |-> "", seq |-> seq,
                   lease |-> now + session_ttl_ms ]

append_session_event_bad(sess, sid, now) ==
    LET lk == SessionLookup(sess, sid, now)
    IN  IF lk.err # ""
        THEN [sessions |-> lk.sessions, ok |-> FALSE, err |-> lk.err,
              seq |-> 0, lease |-> 0]
        ELSE LET st  == lk.sessions[sid]
                 seq == st.next_seq
                 ev  == [seq |-> seq]
             IN  [ sessions |-> [lk.sessions EXCEPT ![sid] =
                      [ next_seq         |-> IF Len(st.events) = 0
                                             THEN st.next_seq + 1 ELSE st.next_seq,
                        events           |-> TrimToCap(Append(st.events, ev)),
                        last_touch_ms    |-> now,
                        acked_seq        |-> st.acked_seq,
                        lease_expires_ms |-> now + session_ttl_ms ]],
                   ok |-> TRUE, err |-> "", seq |-> seq,
                   lease |-> now + session_ttl_ms ]

\* append_session_event.  A StreamEvent is modelled by its seq: payload and
\* created_ms are copied to the response and never read by the session code.
append_session_event(sess, sid, now) ==
    LET lk == SessionLookup(sess, sid, now)
    IN  IF lk.err # ""
        THEN [sessions |-> lk.sessions, ok |-> FALSE, err |-> lk.err,
              seq |-> 0, lease |-> 0]
        ELSE LET st  == lk.sessions[sid]
                 seq == st.next_seq
                 ev  == [seq |-> seq]
             IN  [ sessions |-> [lk.sessions EXCEPT ![sid] =
                      [ next_seq         |-> st.next_seq + 1,
                        events           |-> TrimToCap(Append(st.events, ev)),
                        last_touch_ms    |-> now,
                        acked_seq        |-> st.acked_seq,
                        lease_expires_ms |-> now + session_ttl_ms ]],
                   ok |-> TRUE, err |-> "", seq |-> seq,
                   lease |-> now + session_ttl_ms ]

\* while matches!(state.events.front(), Some(ev) if ev.seq <= state.acked_seq)
RECURSIVE PopAcked(_, _)
PopAcked(q, a) ==
    IF Len(q) > 0 /\ Head(q).seq <= a THEN PopAcked(Tail(q), a) ELSE q

\* events.iter().filter(|e| e.seq >= effective_from)
FromSeq(q, from) == SelectSeq(q, LAMBDA e : e.seq >= from)

EmptyPage == [events |-> <<>>, effective_from |-> 0, next_from |-> 0,
              ack_applied |-> None, lease_expires_ms |-> 0]

collect_session_events_bad(sess, sid, from_seq, limit, ack_seq, now) ==
    LET lk == SessionLookup(sess, sid, now)
    IN  IF lk.err # ""
        THEN [sessions |-> lk.sessions, ok |-> FALSE, err |-> lk.err,
              page |-> EmptyPage]
        ELSE LET st     == lk.sessions[sid]
                 acked1 == IF ack_seq = None THEN st.acked_seq
                           ELSE Max(st.acked_seq, ack_seq[1])
                 q1     == IF ack_seq = None THEN st.events
                           ELSE PopAcked(st.events, acked1)
                 oldest == IF Len(q1) > 0 THEN q1[1].seq ELSE st.next_seq
                 eff    == Max(from_seq, oldest)
                 evs    == Take(FromSeq(q1, eff), limit + 1)
                 nxt    == IF Len(evs) > 0 THEN evs[Len(evs)].seq + 1 ELSE eff
             IN  [ sessions |-> [lk.sessions EXCEPT ![sid] =
                      [ next_seq         |-> st.next_seq,
                        events           |-> q1,
                        last_touch_ms    |-> now,
                        acked_seq        |-> acked1,
                        lease_expires_ms |-> now + session_ttl_ms ]],
                   ok |-> TRUE, err |-> "",
                   page |-> [ events           |-> evs,
                              effective_from   |-> eff,
                              next_from        |-> nxt,
                              ack_applied      |-> IF ack_seq = None THEN None
                                                   ELSE Some(acked1),
                              lease_expires_ms |-> now + session_ttl_ms ] ]

\* collect_session_events
collect_session_events(sess, sid, from_seq, limit, ack_seq, now) ==
    LET lk == SessionLookup(sess, sid, now)
    IN  IF lk.err # ""
        THEN [sessions |-> lk.sessions, ok |-> FALSE, err |-> lk.err,
              page |-> EmptyPage]
        ELSE LET st     == lk.sessions[sid]
                 acked1 == IF ack_seq = None THEN st.acked_seq
                           ELSE Max(st.acked_seq, ack_seq[1])
                 q1     == IF ack_seq = None THEN st.events
                           ELSE PopAcked(st.events, acked1)
                 oldest == IF Len(q1) > 0 THEN q1[1].seq ELSE st.next_seq
                 eff    == Max(from_seq, oldest)
                 evs    == Take(FromSeq(q1, eff), limit)
                 nxt    == IF Len(evs) > 0 THEN evs[Len(evs)].seq + 1 ELSE eff
             IN  [ sessions |-> [lk.sessions EXCEPT ![sid] =
                      [ next_seq         |-> st.next_seq,
                        events           |-> q1,
                        last_touch_ms    |-> now,
                        acked_seq        |-> acked1,
                        lease_expires_ms |-> now + session_ttl_ms ]],
                   ok |-> TRUE, err |-> "",
                   page |-> [ events           |-> evs,
                              effective_from   |-> eff,
                              next_from        |-> nxt,
                              ack_applied      |-> IF ack_seq = None THEN None
                                                   ELSE Some(acked1),
                              lease_expires_ms |-> now + session_ttl_ms ] ]

(***************************************************************************)
(* handle_http_stream_sse.  serve_http takes one connection at a time from *)
(* the listener and handles it on its own thread; while the loop of        *)
(* handle_http_stream_sse runs, the connections that arrive wait in the    *)
(* listener.  The record says where the handler stands:                    *)
(*   pc        : "idle" (no SSE request yet), "polling" (in the handler),  *)
(*               "closed" (the handler has returned);                      *)
(*   sent      : the seqs of the message events written, in order;         *)
(*   out       : what was written last: "message", "cursor", "error", or   *)
(*               "http_error" for the plain response of a first collect    *)
(*               that failed, "none" when only the headers were written;   *)
(*   cursor    : next_from and effective_from of the cursor event;         *)
(*   opened    : the clock when the headers were written;                  *)
(*   pre_issued: the number of events the session had taken by then;       *)
(*   arrived   : history, the POST /mcp/stream requests for the session    *)
(*               that reached the listener while the handler was polling;  *)
(*   polled    : history, a poll was made after the first of them arrived; *)
(*   n         : history, the number of SSE requests taken so far.         *)
(* Keep-alive comments are not events and are left out.                    *)
(***************************************************************************)
\* std::thread::sleep(Duration::from_millis(100))
PollMs == 100

\* .unwrap_or(50).clamp(1, 500)
sse_limit(limit) == Min(Max(IF limit = None THEN 50 ELSE limit[1], 1), 500)

\* .unwrap_or(15_000).clamp(0, 60_000)
sse_wait_ms(wait_ms) ==
    Min(Max(IF wait_ms = None THEN 15000 ELSE wait_ms[1], 0), 60000)

\* .unwrap_or(1)
sse_from(from) == IF from = None THEN 1 ELSE from[1]

NoStream ==
    [ pc |-> "idle", sid |-> UnknownSession, from |-> 0, limit |-> 0,
      wait_ms |-> 0, deadline |-> 0, remaining |-> 0, next_from |-> 0,
      page |-> EmptyPage, sent |-> <<>>, out |-> "none",
      cursor |-> [next_from |-> 0, effective_from |-> 0],
      opened |-> 0, pre_issued |-> 0, arrived |-> 0, polled |-> FALSE,
      n |-> 0 ]

\* the seqs of the events of a page
Seqs(events) == [k \in 1..Len(events) |-> events[k].seq]

\* a poll that asks from the first seq of the request again
sse_poll_from_start(st) == st.from

\* the from_seq of a poll of the loop
sse_poll_from(st) == st.next_from

\* a cursor that names the from of the request
sse_cursor_stale(st) ==
    [next_from |-> st.from, effective_from |-> st.page.effective_from]

\* the cursor event written after the loop
sse_cursor(st) ==
    [next_from |-> st.next_from, effective_from |-> st.page.effective_from]

\* the handler after the first collect_session_events returned r at now
sse_open(sid, from, limit, wait_ms, r, now, pre_issued, n) ==
    IF ~r.ok
    THEN [NoStream EXCEPT !.pc = "closed", !.sid = sid, !.from = from,
                          !.limit = limit, !.wait_ms = wait_ms,
                          !.out = "http_error", !.opened = now,
                          !.pre_issued = pre_issued, !.n = n]
    ELSE [NoStream EXCEPT
             !.n = n,
             !.pc = "polling", !.sid = sid, !.from = from, !.limit = limit,
             !.wait_ms = wait_ms, !.deadline = now + wait_ms,
             !.remaining = Max(limit - Len(r.page.events), 0),
             !.next_from = r.page.next_from, !.page = r.page,
             !.sent = Seqs(r.page.events),
             !.out = IF r.page.events = <<>> THEN "none" ELSE "message",
             !.opened = now, !.pre_issued = pre_issued]

\* the handler after a poll of the loop returned r
sse_polled(st, r) ==
    IF ~r.ok
    THEN [st EXCEPT !.pc = "closed", !.out = "error",
                    !.polled = (st.arrived > 0)]
    ELSE IF r.page.events # <<>>
    THEN [st EXCEPT !.page = r.page,
                    !.sent = @ \o Seqs(r.page.events),
                    !.out = "message",
                    !.remaining = Max(@ - Len(r.page.events), 0),
                    !.next_from = r.page.next_from,
                    !.polled = (st.arrived > 0)]
    ELSE [st EXCEPT !.page = r.page,
                    !.polled = (st.arrived > 0)]

\* the handler after the loop: the cursor event
sse_close(st) ==
    [st EXCEPT !.pc = "closed", !.out = "cursor", !.cursor = sse_cursor(st)]

----------------------------------------------------------------------------
(***************************************************************************)
(* Part II - storage backend and governed write pipeline                   *)
(*                                                                         *)
(* Strings.  A text is a sequence of pieces; a piece is a run of           *)
(* characters known by                                                     *)
(*   w     : its alphanumeric tokens of three or more bytes, lower-cased,  *)
(*   n     : its number of characters (all ASCII, so bytes = chars),       *)
(*   caps  : whether it holds an upper-case letter,                        *)
(*   marks : the markers it contains, of the ones the code searches for.   *)
(* The vocabulary is chosen so that no token is a substring of another     *)
(* piece: text.contains(term) is then membership of term in the tokens.    *)
(***************************************************************************)
Piece(w, n) == [w |-> w, n |-> n, caps |-> FALSE, marks |-> {}]

Lit(w, n, marks) == [w |-> w, n |-> n, caps |-> TRUE, marks |-> marks]

RECURSIVE StrLen(_)
StrLen(text) ==
    IF text = <<>> THEN 0 ELSE Head(text).n + StrLen(Tail(text))

RECURSIVE Tokens(_)
Tokens(text) ==
    IF text = <<>> THEN <<>> ELSE Head(text).w \o Tokens(Tail(text))

Marks(text) == UNION {text[i].marks : i \in 1..Len(text)}

\* str::to_lowercase
to_lowercase(text) == [i \in 1..Len(text) |-> [text[i] EXCEPT !.caps = FALSE]]

\* the first k characters of a text
RECURSIVE Prefix(_, _)
Prefix(text, k) ==
    IF text = <<>> \/ k <= 0 THEN <<>>
    ELSE IF Head(text).n <= k
         THEN <<Head(text)>> \o Prefix(Tail(text), k - Head(text).n)
         ELSE << [Head(text) EXCEPT !.n = k] >>

Elems(s) == {s[i] : i \in 1..Len(s)}

\* the elements of s in order of first appearance
RECURSIVE Distinct(_)
Distinct(s) ==
    IF s = <<>> THEN <<>>
    ELSE LET r == Distinct(SubSeq(s, 1, Len(s) - 1))
         IN  IF s[Len(s)] \in Elems(r) THEN r ELSE Append(r, s[Len(s)])

Reverse(s) == [i \in 1..Len(s) |-> s[Len(s) + 1 - i]]

\* The indices I ordered by ascending key, equal keys in ascending index:
\* a stable sort of a list already in index order.
RECURSIVE StableOrder(_, _)
StableOrder(key, I) ==
    IF I = {} THEN <<>>
    ELSE LET m == CHOOSE i \in I :
                     \A j \in I : key[i] < key[j] \/ (key[i] = key[j] /\ i <= j)
         IN  <<m>> \o StableOrder(key, I \ {m})

\* compact_query: the first max_terms distinct tokens (the loop pushes
\* before it tests the length, so it always yields one token if there is one)
compact_query(text, max_terms) == Take(Distinct(Tokens(text)), Max(max_terms, 1))

\* tokenize of a query that compact_query joined with spaces
tokenize(terms) == SelectSeq(terms, LAMBDA t : t # "")

(***************************************************************************)
(* Tags are pairs <<prefix, value>>, "prefix:value" in the code; a raw tag *)
(* without a colon has the prefix "".                                      *)
(***************************************************************************)
canonicalize_tag(tag) ==
    IF tag[1] # "" THEN tag
    ELSE IF tag[2] = "prx-memory" THEN <<"project", tag[2]>>
    ELSE IF tag[2] \in {"mcp", "lancedb", "openai-compatible", "jina", "gemini",
                        "openclaw", "claude-code", "codex", "openprx"}
         THEN <<"tool", tag[2]>>
    ELSE <<"domain", tag[2]>>

HasPrefix(tags, p) == \E i \in 1..Len(tags) : tags[i][1] = p

\* normalize_tags_with_defaults with no project_tag/tool_tag/domain_tag
\* argument and the default StandardizationConfig
normalize_tags_with_defaults(raw_tags) ==
    LET t0 == Distinct([i \in 1..Len(raw_tags) |-> canonicalize_tag(raw_tags[i])])
        t1 == IF HasPrefix(t0, "project") THEN t0
              ELSE Append(t0, <<"project", "prx-memory">>)
        t2 == IF HasPrefix(t1, "tool") THEN t1 ELSE Append(t1, <<"tool", "mcp">>)
    IN  IF HasPrefix(t2, "domain") THEN t2 ELSE Append(t2, <<"domain", "general">>)

(***************************************************************************)
(* Scopes are records [kind, name], "kind:name" in the code ("global" has  *)
(* no name).  A rule is an exact scope or "kind:*".                        *)
(***************************************************************************)
Scope(kind, name) == [kind |-> kind, name |-> name]

GlobalScope == Scope("global", "")

agent_id == "default-agent"

OwnScope == Scope("agent", agent_id)

\* ScopeManager::from_env without PRX_MEMORY_ALLOWED_SCOPES
DefaultScopeRules == <<GlobalScope, OwnScope>>

\* PRX_MEMORY_AGENT_ACCESS is not set
accessible_scope_rules == allowed_scope_rules

is_valid_scope(scope) ==
    \/ scope = GlobalScope
    \/ scope.kind \in {"agent", "custom", "project", "user"}

rule_matches_scope(rule, scope) ==
    \/ rule.name = "*" /\ rule.kind \in {"*", scope.kind}
    \/ rule = scope

can_access_scope(scope) ==
    /\ is_valid_scope(scope)
    /\ \E k \in 1..Len(accessible_scope_rules) :
          rule_matches_scope(accessible_scope_rules[k], scope)

\* Some(message) or None
validate_scope_write(scope, tags) ==
    IF /\ scope.kind = "agent"
       /\ scope # OwnScope
       /\ ~ \E i \in 1..Len(tags) :
               tags[i] \in {<<"", "cross-domain">>, <<"root-cause", "cross-domain">>}
    THEN Some("agent cannot write to other agent scope without cross-domain tag")
    ELSE None

(***************************************************************************)
(* PersistentMemoryStore.  A backend value st carries the fields of the    *)
(* struct, the database file (disk), the number of writes the file system  *)
(* will still accept during the current call (io), and the history of ids. *)
(***************************************************************************)
\* format!("mem-{}", n) and its inverse strip_prefix("mem-")?.parse::<u64>()
MemId(n) == <<"mem", n>>

ParseMemId(id) == IF id[1] = "mem" THEN Some(id[2]) ELSE None

NoEntry ==
    [ id |-> <<"", 0>>, text |-> <<>>, category |-> "", scope |-> GlobalScope,
      importance |-> 0, tags |-> <<>>, timestamp_ms |-> 0, embedding |-> None ]

Ids(ents) == {ents[i].id : i \in 1..Len(ents)}

\* fs::write of the whole entry list; fails once the file system stops
\* accepting writes
persist(st) ==
    IF st.io > 0
    THEN [ok |-> TRUE,  st |-> [st EXCEPT !.disk = st.entries, !.io = @ - 1]]
    ELSE [ok |-> FALSE, st |-> st]

\* PersistentMemoryStore::open on the database file
open(file) ==
    LET nums == {ParseMemId(file[i].id)[1] :
                    i \in {j \in 1..Len(file) : ParseMemId(file[j].id) # None}}
        top  == IF nums = {} THEN 0 ELSE CHOOSE n \in nums : \A m \in nums : m <= n
    IN  [entries |-> file, next_id |-> top + 1]

\* PersistentMemoryStore::list
list(st, limit) == Take(Reverse(st.entries), Max(limit, 1))

\* PersistentMemoryStore::store; importance is in hundredths
store(st, new, now) ==
    IF StrLen(new.text) = 0
    THEN [ok |-> FALSE, err |-> "invalid input: text cannot be empty",
          st |-> st, entry |-> NoEntry]
    ELSE LET entry == [ id           |-> MemId(st.next_id),
                        text         |-> to_lowercase(new.text),
                        category     |-> new.category,
                        scope        |-> new.scope,
                        importance   |-> Min(Max(new.importance, 0), 100),
                        tags         |-> new.tags,
                        timestamp_ms |-> now,
                        embedding    |-> new.embedding ]
             p == persist([st EXCEPT !.next_id = @ + 1,
                                     !.entries = Append(@, entry)])
         IN  [ok |-> p.ok, err |-> IF p.ok THEN "" ELSE "io error",
              st |-> [p.st EXCEPT !.assigned =
                         Append(@, [id |-> entry.id, returned |-> FALSE])],
              entry |-> entry]

\* PersistentMemoryStore::forget_by_id; res is Ok(true), Ok(false) or Err
forget_by_id(st, id) ==
    LET kept    == SelectSeq(st.entries, LAMBDA e : e.id # id)
        changed == Len(kept) # Len(st.entries)
        p       == persist([st EXCEPT !.entries = kept])
    IN  IF ~changed THEN [res |-> "Ok(false)", st |-> st]
        ELSE [res |-> IF p.ok THEN "Ok(true)" ELSE "Err", st |-> p.st]

(***************************************************************************)
(* recall_entries.  Scores are in millionths; the f32 arithmetic of the     *)
(* code is followed step by step, each division rounding down.  The        *)
(* vector_weight and lexical_weight of a query are left at their defaults. *)
(***************************************************************************)
RecallMinScore == 120000

FourteenDaysMs == 1209600000

approx_doc_len(e) == Max(StrLen(e.text) \div 5, 1) + Max(Len(e.tags), 1)

term_frequency(e, term) ==
    IF term # "" /\ term \in Elems(Tokens(e.text)) THEN 1 ELSE 0

\* (tf * (k1 + 1)) / (tf + k1 * (1 - b + b * doc_len / 32)) for tf = 1,
\* k1 = 1.2, b = 0.75: 2.2 / (1.3 + 0.028125 * doc_len)
Bm25Term(doc_len) == 704000000 \div (416 + 9 * doc_len)

\* 0.10 / (1 + age_days / 14)
apply_recency_boost(score, now, timestamp_ms) ==
    LET age_ms == Max(now - timestamp_ms, 0)
    IN  score + 100000 - (100000 * age_ms) \div (FourteenDaysMs + age_ms)

\* score * (0.7 + 0.3 * importance)
apply_importance_weight(score, importance) ==
    (score * (700 + 3 * Min(Max(importance, 0), 100))) \div 1000

\* log2 of r / 1000 in thousandths, linear between powers of two
RECURSIVE Log2Milli(_)
Log2Milli(r) == IF r < 2000 THEN r - 1000 ELSE 1000 + Log2Milli(r \div 2)

\* score / (1 + 0.5 * log2(len / 500)), the factor clamped to 0.4..1
apply_length_norm(score, text_len) ==
    IF text_len <= 500 THEN score
    ELSE LET norm == 1000000 \div (1000 + Log2Milli(2 * text_len) \div 2)
         IN  (score * Min(Max(norm, 400), 1000)) \div 1000

\* category, scope and the first 120 characters (the 64-bit hash is taken
\* to be injective)
signature(e) == <<e.category, e.scope, Prefix(e.text, 120)>>

\* The vector the embedding provider answers for a text, named by the task
\* and the text it was computed from.
Vector(task, text) == <<task, text>>

\* the cosine, in millionths, of the vectors the provider answers for two
\* different inputs
CosDistinct == 500000

\* cosine_similarity of two normalized vectors, in millionths
cosine_similarity(a, b) == IF a = b THEN 1000000 ELSE CosDistinct

\* the vector_score of an entry: 0 unless the query and the entry both
\* carry an embedding
VectorScore(e, query_embedding) ==
    IF query_embedding # None /\ e.embedding # None
    THEN cosine_similarity(query_embedding[1], e.embedding[1]) ELSE 0

RecallScore(e, terms, now, query_embedding) ==
    LET hits         == Cardinality({k \in 1..Len(terms) :
                                        term_frequency(e, terms[k]) > 0})
        bm25_local   == hits * Bm25Term(approx_doc_len(e))
        lexical      == IF terms = <<>> THEN 0 ELSE (hits * 1000000) \div Len(terms)
        bm25_norm    == IF terms = <<>> THEN 0 ELSE bm25_local \div Len(terms)
        lexical_base == (65 * bm25_norm + 35 * lexical) \div 100
        \* vector_weight 0.6, lexical_weight 1 - 0.6
        fused        == IF query_embedding = None THEN lexical_base
                        ELSE (400 * lexical_base
                              + 600 * ((VectorScore(e, query_embedding) + 1000000)
                                       \div 2)) \div 1000
    IN  apply_length_norm(
            apply_importance_weight(
                apply_recency_boost(fused, now, e.timestamp_ms),
                e.importance),
            StrLen(e.text))

\* a selection that takes the first limit candidates as they are ranked
SelectRanked(ents, ranked, seen, out, limit) == Take(ranked, limit)

\* the loop over the ranked candidates that drops repeated signatures
RECURSIVE SelectBySignature(_, _, _, _, _)
SelectBySignature(ents, ranked, seen, out, limit) ==
    IF ranked = <<>> \/ Len(out) >= limit THEN out
    ELSE LET sig == signature(ents[Head(ranked)])
         IN  IF sig \in seen
             THEN SelectBySignature(ents, Tail(ranked), seen, out, limit)
             ELSE SelectBySignature(ents, Tail(ranked), seen \cup {sig},
                                    Append(out, Head(ranked)), limit)

\* Ord for RankedItem: by score, then by idx
RankedLess(a, b) == a.score < b.score \/ (a.score = b.score /\ a.idx < b.idx)

\* BinaryHeap<Reverse<RankedItem>> as its backing vector (1-based: the
\* parent of position p is p \div 2); the least item is at the root.
RECURSIVE SiftUp(_, _)
SiftUp(h, pos) ==
    IF pos = 1 \/ ~RankedLess(h[pos], h[pos \div 2]) THEN h
    ELSE SiftUp([h EXCEPT ![pos] = h[pos \div 2], ![pos \div 2] = h[pos]],
                pos \div 2)

\* sift_down_to_bottom: the hole at pos goes down to a leaf, taking the
\* child that is greater in heap order (the right one when they compare
\* equal); yields the vector and the position of the hole
RECURSIVE SiftDownToBottom(_, _)
SiftDownToBottom(h, pos) ==
    LET c == 2 * pos
    IN  IF c + 1 <= Len(h)
        THEN LET pick == IF RankedLess(h[c], h[c + 1]) THEN c ELSE c + 1
             IN  SiftDownToBottom([h EXCEPT ![pos] = h[pick]], pick)
        ELSE IF c = Len(h)
             THEN [h |-> [h EXCEPT ![pos] = h[c]], pos |-> c]
             ELSE [h |-> h, pos |-> pos]

\* BinaryHeap::pop
HeapPop(h) ==
    LET Settle(d) == SiftUp([d.h EXCEPT ![d.pos] = h[Len(h)]], d.pos)
    IN  IF Len(h) = 1 THEN <<>>
        ELSE Settle(SiftDownToBottom(SubSeq(h, 1, Len(h) - 1), 1))

\* BinaryHeap::push
HeapPush(h, item) == SiftUp(Append(h, item), Len(h) + 1)

\* the loop that keeps the cap best candidates; items come in index order
RECURSIVE RankCandidates(_, _, _)
RankCandidates(h, items, cap) ==
    IF items = <<>> THEN h
    ELSE RankCandidates(
             IF Len(h) < cap THEN HeapPush(h, Head(items))
             ELSE IF Head(items).score > h[1].score
                  THEN HeapPush(HeapPop(h), Head(items))
                  ELSE h,
             Tail(items), cap)

\* the candidates that passed the threshold, in index order
RankedItems(score, order) ==
    [k \in 1..Len(order) |-> [idx |-> order[k], score |-> score[order[k]]]]

\* into_iter yields the vector of the heap as it lies; the sort that
\* follows is stable and descending by score
SortRanked(heap, order) == [k \in 1..Len(order) |-> heap[order[k]].idx]

RankedIndices(heap) ==
    SortRanked(heap, StableOrder([k \in 1..Len(heap) |-> 0 - heap[k].score],
                                 1..Len(heap)))

\* query = [terms, query_embedding : Option, scope : Option,
\*          category : Option, limit]
recall_entries(ents, query, now) ==
    LET terms == tokenize(query.terms)
        has_vector == query.query_embedding # None
        limit == Min(Max(query.limit, 1), 50)
        cand  == {i \in 1..Len(ents) :
                    /\ query.scope = None \/ ents[i].scope = query.scope[1]
                    /\ query.category = None \/ ents[i].category = query.category[1]}
        hit   == {i \in cand :
                    /\ ~has_vector => terms[1] \in Elems(Tokens(ents[i].text))
                    /\ \/ \E k \in 1..Len(terms) :
                             term_frequency(ents[i], terms[k]) > 0
                       \/ VectorScore(ents[i], query.query_embedding) > 0}
        score == [i \in hit |->
                     RecallScore(ents[i], terms, now, query.query_embedding)]
        pass  == {i \in hit : score[i] >= RecallMinScore}
        cap   == Min(Max(limit * 4, 16), 96)
        ranked == RankedIndices(
                      RankCandidates(<<>>,
                          RankedItems(score, StableOrder([i \in pass |-> 0], pass)),
                          cap))
        out   == SelectBySignature(ents, ranked, {}, <<>>, limit)
    IN  IF terms = <<>> /\ ~has_vector THEN <<>>
        ELSE [k \in 1..Len(out) |-> [entry |-> ents[out[k]], score |-> score[out[k]]]]

(***************************************************************************)
(* Governance rules of the write pipeline.                                 *)
(***************************************************************************)
DuplicateScore == 930000

MaxGovernedChars == 500

AutoMaintenanceEvery == 100

ListAll == 200000

\* Ok((importance, level)) or Err(message); importance is in hundredths
resolve_importance(level, numeric) ==
    LET Levels == [low |-> 25, medium |-> 50, high |-> 75, critical |-> 100]
        Ok(lv) == [ok |-> TRUE, importance |-> Levels[lv], level |-> lv]
        Err    == [ok |-> FALSE, importance |-> 0, level |-> ""]
        s      == Min(Max(numeric[1], 0), 100)
    IN  IF level # None
        THEN IF level[1] \in DOMAIN Levels THEN Ok(level[1]) ELSE Err
        ELSE IF numeric # None
        THEN IF \E lv \in DOMAIN Levels : Levels[lv] = s
             THEN Ok(CHOOSE lv \in DOMAIN Levels : Levels[lv] = s)
             ELSE Err
        ELSE Ok("medium")

importance_level_from_numeric(v) ==
    IF v >= 95 THEN "critical"
    ELSE IF v >= 70 THEN "high"
    ELSE IF v >= 45 THEN "medium"
    ELSE "low"

infer_default_category(text) ==
    IF {"pitfall:", "cause:", "fix:", "prevention:"} \subseteq Marks(text) THEN "fact"
    ELSE IF "decision principle" \in Marks(text) THEN "decision"
    ELSE "other"

\* "" for Ok(()), the message for Err; the mark "code fence" stands for
\* three backquotes
validate_governed_input(text, category, tags, importance_level) ==
    IF StrLen(text) = 0 THEN "text cannot be empty"
    ELSE IF StrLen(text) > MaxGovernedChars THEN "entry must be <= 500 chars"
    ELSE IF Marks(text) \cap {"code fence", "stacktrace", "raw conversation"} # {}
         THEN "log-like or raw content is not allowed"
    ELSE IF category \notin {"preference", "fact", "decision", "entity", "other"}
         THEN "category must be one of preference|fact|decision|entity|other"
    ELSE IF tags = <<>> THEN "tags are required in governed mode"
    ELSE IF ~(HasPrefix(tags, "project") /\ HasPrefix(tags, "tool")
              /\ HasPrefix(tags, "domain"))
         THEN "tags must include project:*, tool:*, domain:*"
    ELSE IF /\ category = "fact"
            /\ ~({"pitfall:", "cause:", "fix:", "prevention:"} \subseteq Marks(text))
         THEN "fact entry must follow Pitfall/Cause/Fix/Prevention template"
    ELSE IF category = "decision" /\ "decision principle" \notin Marks(text)
         THEN "decision entry must follow Decision principle template"
    ELSE IF category = "decision" /\ importance_level = "low"
         THEN "decision importance must be medium/high/critical"
    ELSE ""

CountIn(ents, scope, cats) ==
    Cardinality({i \in 1..Len(ents) :
                    ents[i].scope = scope /\ ents[i].category \in cats})

\* decision_ratio_in_scope, as the pair it divides
decision_ratio_in_scope(st, scope) ==
    LET rows == list(st, ListAll)
    IN  [ decision |-> CountIn(rows, scope, {"decision"}),
          total    |-> Cardinality({i \in 1..Len(rows) : rows[i].scope = scope}) ]

\* decision as f32 / total as f32 > 0.30, and 0.0 > 0.30 for an empty scope.
\* For totals up to ListAll the f32 quotient is above the f32 constant 0.30
\* exactly when 10 * decision > 3 * total.
RatioAbove(decision, total) == total > 0 /\ 10 * decision > 3 * total

filter_entries_by_acl(rows, requested_scope, requested_category) ==
    SelectSeq(rows, LAMBDA e :
        /\ IF requested_scope # None THEN e.scope = requested_scope[1]
           ELSE can_access_scope(e.scope)
        /\ requested_category = None \/ e.category = requested_category[1])

(***************************************************************************)
(* run_periodic_maintenance.  The HashMap iteration orders of the code are *)
(* fixed here (groups and scopes in list order); the order only decides    *)
(* which deletions reach the file when the file system fails part-way.     *)
(***************************************************************************)
GroupKey(e) == <<e.scope, e.category, compact_query(e.text, 16)>>

\* importance first, timestamp second (timestamps stay below 10^6 here)
RankKey(e) == e.importance * 1000000 + e.timestamp_ms

\* the forgets of one phase, counting those that returned Ok(true)
RECURSIVE ForgetEach(_, _, _)
ForgetEach(st, ids, deleted) ==
    IF ids = <<>> THEN [st |-> st, deleted |-> deleted]
    ELSE LET Next(f) == ForgetEach(f.st, Tail(ids),
                                   IF f.res = "Ok(true)" THEN deleted + 1 ELSE deleted)
         IN  Next(forget_by_id(st, Head(ids)))

\* the groups of the dedupe phase: the row numbers of the same key
DuplicateGroup(rows, i) ==
    {j \in 1..Len(rows) : GroupKey(rows[j]) = GroupKey(rows[i])}

\* the ids the dedupe phase deletes: in every group all but the entry of
\* highest importance, newest first among equals
DuplicateIds(rows) ==
    LET keep(i)  == Head(StableOrder([j \in DuplicateGroup(rows, i) |->
                                         0 - RankKey(rows[j])],
                                     DuplicateGroup(rows, i)))
        victims  == SelectSeq(rows, LAMBDA e :
                        \E i \in 1..Len(rows) :
                            rows[i].id = e.id /\ rows[keep(i)].id # e.id)
    IN  IF Len(rows) > 1 THEN [k \in 1..Len(victims) |-> victims[k].id] ELSE <<>>

\* merged_groups: the groups of more than one row
MergedGroups(rows) ==
    IF Len(rows) > 1
    THEN Cardinality({DuplicateGroup(rows, i) : i \in 1..Len(rows)}
                     \ {{i} : i \in 1..Len(rows)})
    ELSE 0

\* a trimming loop without its break
RECURSIVE RebalanceLoop_all(_, _)
RebalanceLoop_all(acc, items) ==
    IF items = <<>> THEN acc
    ELSE IF Head(items).importance >= 100 THEN RebalanceLoop_all(acc, Tail(items))
    ELSE RebalanceLoop_all([st |-> forget_by_id(acc.st, Head(items).id).st,
                            deleted |-> acc.deleted + 1,
                            decision_count |-> acc.decision_count - 1,
                            total |-> acc.total - 1], Tail(items))

\* the trimming loop of one scope; acc carries the backend, scope_deleted
\* and the loop's decision_count and total
RECURSIVE RebalanceLoop(_, _)
RebalanceLoop(acc, items) ==
    IF items = <<>> \/ ~RatioAbove(acc.decision_count, acc.total) THEN acc
    ELSE IF Head(items).importance >= 100 THEN RebalanceLoop(acc, Tail(items))
    ELSE LET Next(f) ==
                IF f.res = "Ok(true)"
                THEN RebalanceLoop([st |-> f.st, deleted |-> acc.deleted + 1,
                                    decision_count |-> acc.decision_count - 1,
                                    total |-> acc.total - 1], Tail(items))
                ELSE RebalanceLoop([acc EXCEPT !.st = f.st], Tail(items))
         IN  Next(forget_by_id(acc.st, Head(items).id))

RebalanceScope_bad(acc, rows, scope) == acc

\* one scope of the rebalance phase; acc carries the backend,
\* rebalance_deleted, rebalance_scopes and notes
RebalanceScope(acc, rows, scope) ==
    LET mine      == SelectSeq(rows, LAMBDA e : e.scope = scope)
        decisions == SelectSeq(mine, LAMBDA e : e.category = "decision")
        order     == StableOrder([j \in 1..Len(decisions) |-> RankKey(decisions[j])],
                                 1..Len(decisions))
        Trimmed(t) ==
            [ st |-> t.st,
              rebalance_deleted |-> acc.rebalance_deleted + t.deleted,
              rebalance_scopes  |-> IF t.deleted > 0
                                    THEN Append(acc.rebalance_scopes, scope)
                                    ELSE acc.rebalance_scopes,
              notes |-> IF RatioAbove(t.decision_count, Max(t.total, 1))
                        THEN Append(acc.notes, scope) ELSE acc.notes ]
    IN  IF decisions = <<>> \/ ~RatioAbove(Len(decisions), Len(mine)) THEN acc
        ELSE Trimmed(RebalanceLoop([st |-> acc.st, deleted |-> 0,
                                    decision_count |-> Len(decisions),
                                    total |-> Len(mine)],
                                   [k \in 1..Len(order) |-> decisions[order[k]]]))

RECURSIVE RebalanceScopes(_, _, _)
RebalanceScopes(acc, rows, scopes) ==
    IF scopes = <<>> THEN acc
    ELSE RebalanceScopes(RebalanceScope(acc, rows, Head(scopes)), rows, Tail(scopes))

\* returns the backend it leaves and the AutoMaintenanceReport; a note is
\* modelled by the scope it names.  before, deduped and after are the
\* entry lists at the start of the pass, between its two phases and at its
\* end.
run_periodic_maintenance(st) ==
    LET Report(before, deduped, r) ==
            [ st |-> r.st,
              before |-> st.entries, deduped |-> deduped.st.entries,
              after |-> r.st.entries,
              report |->
                [ total_before      |-> Len(before),
                  total_after       |-> Len(filter_entries_by_acl(list(r.st, ListAll), None, None)),
                  merged_groups     |-> MergedGroups(before),
                  duplicate_deleted |-> deduped.deleted,
                  rebalance_deleted |-> r.rebalance_deleted,
                  rebalance_scopes  |-> r.rebalance_scopes,
                  notes             |-> r.notes ] ]
        \* the rebalance phase, on the list read after the dedupe phase
        Rebalance(before, deduped, after) ==
            Report(before, deduped,
                   RebalanceScopes([st |-> deduped.st, rebalance_deleted |-> 0,
                                    rebalance_scopes |-> <<>>, notes |-> <<>>],
                                   after,
                                   Distinct([i \in 1..Len(after) |-> after[i].scope])))
        Deduped(before, deduped) ==
            Rebalance(before, deduped,
                      filter_entries_by_acl(list(deduped.st, ListAll), None, None))
        Dedupe(before) == Deduped(before, ForgetEach(st, DuplicateIds(before), 0))
    IN  Dedupe(filter_entries_by_acl(list(st, ListAll), None, None))

(***************************************************************************)
(* store_layer_with_rules.  req is the StoreLayerRequest; embed_ok is the  *)
(* answer of the embedding provider, consulted when req.use_vector.        *)
(***************************************************************************)
\* *counter = counter.saturating_add(1);
\* req.allow_auto_maintenance && (*counter % 100 == 0), on the new counter
should_trigger_bad(req, counter) ==
    req.allow_auto_maintenance /\ counter % AutoMaintenanceEvery = AutoMaintenanceEvery - 1

should_trigger(req, counter) ==
    req.allow_auto_maintenance /\ counter % AutoMaintenanceEvery = 0

store_layer_with_rules(st, counter, req, now, embed_ok) ==
    LET Fail(msg, s) == [ok |-> FALSE, err |-> msg, st |-> s, counter |-> counter,
                         entry |-> NoEntry, maintenance |-> FALSE,
                         auto_maintenance |-> None, pass |-> None]
        counter1 == counter + 1
        trigger  == should_trigger(req, counter1)
        \* after run_periodic_maintenance returned m
        Maintained(stored, m) ==
            [ok |-> TRUE, err |-> "", st |-> m.st,
             counter |-> counter1, entry |-> stored.entry,
             maintenance |-> TRUE, auto_maintenance |-> Some(m.report),
             pass |-> Some([before |-> m.before, deduped |-> m.deduped,
                            after |-> m.after, report |-> m.report])]
        \* after the post-store recall returned verify
        Verified(stored, verify) ==
            IF /\ req.enforce_verify \/ (req.governed /\ req.importance_level = "critical")
               /\ ~\E k \in 1..Len(verify) : verify[k].entry.id = stored.entry.id
            THEN Fail("post-store recall verification failed",
                      forget_by_id(stored.st, stored.entry.id).st)
            ELSE IF trigger THEN Maintained(stored, run_periodic_maintenance(stored.st))
            ELSE [ok |-> TRUE, err |-> "", st |-> stored.st,
                  counter |-> counter1, entry |-> stored.entry,
                  maintenance |-> FALSE, auto_maintenance |-> None, pass |-> None]
        \* after locked.store(...) returned stored
        Stored(stored) ==
            IF ~stored.ok THEN Fail(stored.err, stored.st)
            ELSE Verified(stored,
                    recall_entries(stored.st.entries,
                        [terms |-> compact_query(stored.entry.text, 8),
                         query_embedding |-> None,
                         scope |-> Some(stored.entry.scope),
                         category |-> Some(stored.entry.category),
                         limit |-> 5], now))
        \* the gates before the write, on what they computed
        Gated(denied, invalid, maybe_dup, ratio) ==
            IF ~can_access_scope(req.scope) THEN Fail("scope access denied", st)
            ELSE IF denied # None THEN Fail(denied[1], st)
            ELSE IF req.governed /\ invalid # "" THEN Fail(invalid, st)
            ELSE IF /\ req.governed
                    /\ maybe_dup # <<>>
                    /\ maybe_dup[1].score > DuplicateScore
                 THEN Fail("duplicate memory likely exists", st)
            ELSE IF /\ req.governed
                    /\ req.category = "decision"
                    /\ RatioAbove(ratio.decision, ratio.total)
                 THEN Fail("decision memory ratio exceeds 30% in current scope", st)
            ELSE IF req.use_vector /\ ~embed_ok THEN Fail("embedding failed", st)
            ELSE Stored(store(st, [text |-> req.text, category |-> req.category,
                                   scope |-> req.scope, importance |-> req.importance,
                                   tags |-> req.tags,
                                   embedding |-> IF req.use_vector
                                                 THEN Some(Vector("passage", req.text))
                                                 ELSE None], now))
    IN  Gated(validate_scope_write(req.scope, req.tags),
              validate_governed_input(req.text, req.category, req.tags,
                                      req.importance_level),
              recall_entries(st.entries,
                  [terms |-> compact_query(req.text, 10),
                   query_embedding |-> None,
                   scope |-> Some(req.scope), category |-> Some(req.category),
                   limit |-> 3], now),
              decision_ratio_in_scope(st, req.scope))

(***************************************************************************)
(* The memory tools.  Every exec_* returns the response (ok, err), the     *)
(* backend and counter it leaves, and what the response carries.           *)
(***************************************************************************)
\* format!("Pitfall: {}. Cause: {}. Fix: {}. Prevention: {}.", ...)
TechText(a) ==
    <<Lit(<<"pitfall">>, 9, {"pitfall:"})>> \o a.symptom
    \o <<Lit(<<"cause">>, 9, {"cause:"})>> \o a.cause
    \o <<Lit(<<"fix">>, 7, {"fix:"})>> \o a.fix
    \o <<Lit(<<"prevention">>, 14, {"prevention:"})>> \o a.prevention
    \o <<Piece(<<>>, 1)>>

\* format!("Decision principle ({}): {}. Trigger: {}. Action: {}.", ...)
PrincipleText(p) ==
    <<Lit(<<"decision", "principle">>, 20, {"decision principle"})>> \o p.tag
    \o <<Piece(<<>>, 3)>> \o p.rule
    \o <<Lit(<<"trigger">>, 11, {})>> \o p.trigger
    \o <<Lit(<<"action">>, 10, {})>> \o p.action
    \o <<Piece(<<>>, 1)>>

\* layers: what each store_layer_with_rules call of the handler returned, in
\* order; auto_maintenance: the reports the response carries; embed_err:
\* embed_one returned Err during the call
Response(ok, err, st, counter) ==
    [ok |-> ok, err |-> err, st |-> st, counter |-> counter, ids |-> <<>>,
     fact |-> None, decision |-> None, maintenance |-> FALSE,
     layers |-> <<>>, auto_maintenance |-> <<>>, target |-> None, items |-> <<>>,
     tags |-> <<>>, warning |-> None, embed_err |-> FALSE]

\* the Result of one store_layer_with_rules call
Layer(outcome) ==
    [ok |-> outcome.ok, err |-> outcome.err, entry |-> outcome.entry,
     auto_maintenance |-> outcome.auto_maintenance, pass |-> outcome.pass]

exec_memory_store_dual(st, counter, a, now) ==
    LET tags  == normalize_tags_with_defaults(a.tags)
        tech  == resolve_importance(a.tech_importance_level, Some(75))
        prin  == resolve_importance(a.principle_importance_level, Some(75))
        LayerRequest(text, category, imp) ==
            [text |-> text, category |-> category, scope |-> a.scope,
             importance |-> imp.importance, importance_level |-> imp.level,
             tags |-> tags, governed |-> a.governed, use_vector |-> a.use_vector,
             enforce_verify |-> TRUE, allow_auto_maintenance |-> TRUE]
        \* after the principle layer returned principle
        Principle(technical, principle) ==
            IF ~principle.ok
            THEN [Response(FALSE,
                           "principle layer store failed, rolled back technical layer",
                           forget_by_id(principle.st, technical.entry.id).st,
                           principle.counter) EXCEPT
                     !.fact = Some(technical.entry.id),
                     !.maintenance = technical.maintenance,
                     !.layers = <<Layer(technical), Layer(principle)>>]
            ELSE [Response(TRUE, "", principle.st, principle.counter) EXCEPT
                     !.ids = <<technical.entry.id, principle.entry.id>>,
                     !.fact = Some(technical.entry.id),
                     !.decision = Some(principle.entry.id),
                     !.maintenance = technical.maintenance \/ principle.maintenance,
                     !.layers = <<Layer(technical), Layer(principle)>>,
                     !.auto_maintenance = technical.auto_maintenance
                                          \o principle.auto_maintenance]
        \* after the technical layer returned technical
        Technical(technical) ==
            IF ~technical.ok
            THEN [Response(FALSE, technical.err, technical.st, technical.counter)
                     EXCEPT !.layers = <<Layer(technical)>>]
            ELSE IF ~a.include_principle
            THEN [Response(TRUE, "", technical.st, technical.counter) EXCEPT
                     !.ids = <<technical.entry.id>>,
                     !.fact = Some(technical.entry.id),
                     !.maintenance = technical.maintenance,
                     !.layers = <<Layer(technical)>>,
                     !.auto_maintenance = technical.auto_maintenance]
            ELSE Principle(technical,
                    store_layer_with_rules(technical.st, technical.counter,
                        LayerRequest(PrincipleText(a.principle[1]), "decision", prin),
                        now, a.embed[2]))
    IN  IF a.governed /\ ~a.include_principle
        THEN Response(FALSE, "governed dual-layer writes require include_principle=true",
                      st, counter)
        ELSE IF ~tech.ok
        THEN Response(FALSE, "importance_level must be low|medium|high|critical",
                      st, counter)
        ELSE IF a.include_principle /\ a.principle = None
        THEN Response(FALSE, "principle fields are required when include_principle=true",
                      st, counter)
        ELSE IF a.include_principle /\ ~prin.ok
        THEN Response(FALSE, "importance_level must be low|medium|high|critical",
                      st, counter)
        ELSE Technical(store_layer_with_rules(st, counter,
                           LayerRequest(TechText(a), "fact", tech), now, a.embed[1]))

\* enforce is enforce_dual_layer(), the PRX_MEMORY_ENFORCE_DUAL_LAYER switch
exec_memory_store(st, counter, a, now, enforce) ==
    LET category == IF a.category = None THEN infer_default_category(a.text)
                    ELSE a.category[1]
        imp      == resolve_importance(a.importance_level, a.importance)
        \* after store_layer_with_rules returned outcome
        Outcome(outcome) ==
            IF ~outcome.ok
            THEN [Response(FALSE, outcome.err, outcome.st, outcome.counter)
                     EXCEPT !.layers = <<Layer(outcome)>>]
            ELSE [Response(TRUE, "", outcome.st, outcome.counter) EXCEPT
                     !.ids = <<outcome.entry.id>>,
                     !.decision = IF category = "decision"
                                  THEN Some(outcome.entry.id) ELSE None,
                     !.maintenance = outcome.maintenance,
                     !.layers = <<Layer(outcome)>>,
                     !.auto_maintenance = outcome.auto_maintenance]
    IN  IF a.governed /\ enforce
        THEN Response(FALSE,
                      "governed single-layer writes are disabled; use memory_store_dual",
                      st, counter)
        ELSE IF ~imp.ok
        THEN Response(FALSE, "importance_level must be low|medium|high|critical",
                      st, counter)
        ELSE Outcome(store_layer_with_rules(st, counter,
                        [text |-> a.text, category |-> category, scope |-> a.scope,
                         importance |-> imp.importance,
                         importance_level |-> imp.level,
                         tags |-> normalize_tags_with_defaults(a.tags),
                         governed |-> a.governed, use_vector |-> a.use_vector,
                         enforce_verify |-> FALSE, allow_auto_maintenance |-> TRUE],
                        now, a.embed[1]))

\* ScopeManager::has_pattern_rule
has_pattern_rule ==
    \E k \in 1..Len(accessible_scope_rules) : accessible_scope_rules[k].name = "*"

\* sort_by(|a, b| b.score.total_cmp(&a.score)): stable, descending
SortByScore(results) ==
    LET Ordered(order) == [k \in 1..Len(order) |-> results[order[k]]]
    IN  Ordered(StableOrder([k \in 1..Len(results) |-> 0 - results[k].score],
                            1..Len(results)))

\* retain(|r| seen.insert(r.entry.id.clone()))
RECURSIVE RetainFirstIds(_, _)
RetainFirstIds(results, seen) ==
    IF results = <<>> THEN <<>>
    ELSE IF Head(results).entry.id \in seen
         THEN RetainFirstIds(Tail(results), seen)
         ELSE <<Head(results)>>
              \o RetainFirstIds(Tail(results), seen \cup {Head(results).entry.id})

\* the loop of one recall per concrete rule
RECURSIVE RecallPerRule(_, _, _, _)
RecallPerRule(ents, rules, req, now) ==
    IF rules = <<>> THEN <<>>
    ELSE recall_entries(ents,
             [terms |-> req.terms, query_embedding |-> req.query_embedding,
              scope |-> Some(Head(rules)),
              category |-> req.category, limit |-> req.candidate_pool], now)
         \o RecallPerRule(ents, Tail(rules), req, now)

\* a recall_with_acl that lets every recalled entry through
recall_with_acl_open(ents, req, now) ==
    recall_entries(ents,
        [terms |-> req.terms, query_embedding |-> req.query_embedding,
         scope |-> req.requested_scope,
         category |-> req.category, limit |-> req.candidate_pool], now)

\* req = [terms, requested_scope : Option, category : Option, candidate_pool]
recall_with_acl(ents, req, now) ==
    IF req.requested_scope # None
    THEN IF ~can_access_scope(req.requested_scope[1]) THEN <<>>
         ELSE recall_entries(ents,
                  [terms |-> req.terms, query_embedding |-> req.query_embedding,
                   scope |-> req.requested_scope,
                   category |-> req.category, limit |-> req.candidate_pool], now)
    ELSE IF has_pattern_rule
    THEN Take(SortByScore(
                  SelectSeq(recall_entries(ents,
                                [terms |-> req.terms,
                                 query_embedding |-> req.query_embedding,
                                 scope |-> None,
                                 category |-> req.category,
                                 limit |-> req.candidate_pool], now),
                            LAMBDA r : can_access_scope(r.entry.scope))),
              req.candidate_pool)
    ELSE Take(RetainFirstIds(
                  SortByScore(RecallPerRule(ents, accessible_scope_rules, req, now)),
                  {}),
              req.candidate_pool)

(***************************************************************************)
(* Remote rerank.  What the providers answer during a call is part of the  *)
(* arguments of the model: remote.cross says whether the cross-encoder     *)
(* answers, remote.docs how many passage vectors the embedding provider    *)
(* returns ("all", "one" or "none", none standing for a failed request).   *)
(* A cross-encoder that answers scores every document alike.               *)
(***************************************************************************)
\* results.iter().map(|r| r.score).fold(0.0, f32::max).max(1e-6)
RECURSIVE MaxLocal(_)
MaxLocal(results) ==
    IF results = <<>> THEN 1 ELSE Max(Head(results).score, MaxLocal(Tail(results)))

\* row.score = 0.4 * local + 0.6 * x for the first upto rows, where local is
\* row.score / max_local (computed in thousandths, to stay within 32 bits)
Rescored(results, upto, x, max_local) ==
    [k \in 1..Len(results) |->
        IF k <= upto
        THEN [results[k] EXCEPT
                 !.score = 400 * ((results[k].score * 1000) \div max_local)
                           + (600 * (x \div 1000))]
        ELSE results[k]]

\* Ok(()) with the rows re-scored and sorted, or Err
cross_encoder_rerank_with_remote(results, remote) ==
    IF remote.cross
    THEN [ok |-> TRUE,
          results |-> SortByScore(Rescored(results, Len(results), 500000,
                                           MaxLocal(results)))]
    ELSE [ok |-> FALSE, results |-> results]

\* the loop re-scores the rows in place and stops at the first row the
\* provider returned no vector for
semantic_rerank_with_embeddings(results, remote) ==
    IF remote.docs = "none" THEN [ok |-> FALSE, results |-> results]
    ELSE IF remote.docs = "one" /\ Len(results) > 1
    THEN [ok |-> FALSE,
          results |-> Rescored(results, 1, (CosDistinct + 1000000) \div 2,
                               MaxLocal(results))]
    ELSE [ok |-> TRUE,
          results |-> SortByScore(
                          Rescored(results, Len(results),
                                   (CosDistinct + 1000000) \div 2,
                                   MaxLocal(results)))]

\* Ok(None), Ok(Some(warning)) or Err(message), and the rows as it leaves them
semantic_rerank_with_remote(results, remote) ==
    LET Cross(c) ==
            IF c.ok THEN [ok |-> TRUE, warning |-> None, results |-> c.results]
            ELSE LET Fallback(f) ==
                         [ok |-> f.ok,
                          warning |-> Some(IF f.ok
                                           THEN "Cross-encoder rerank unavailable"
                                           ELSE "Third-party vector request failed"),
                          results |-> f.results]
                 IN  Fallback(semantic_rerank_with_embeddings(c.results, remote))
    IN  Cross(cross_encoder_rerank_with_remote(results, remote))

\* a = [terms, scope : Option, category : Option, limit : Option,
\*      candidate_pool : Option, use_vector, use_remote] and the answers of
\* the providers: embed (the query embedding is computed) and remote
exec_memory_recall(st, counter, a, now) ==
    LET limit == Min(Max(IF a.limit = None THEN 5 ELSE a.limit[1], 1), 20)
        candidate_pool ==
            Min(Max(IF a.candidate_pool = None THEN limit * 6
                    ELSE a.candidate_pool[1], limit), 200)
        \* after the rerank, if any, returned r
        Reranked(r) ==
            [Response(TRUE, "", st, counter) EXCEPT
                !.items = [k \in 1..Min(limit, Len(r.results)) |->
                              [r.results[k] EXCEPT !.entry.embedding = None]],
                !.warning = r.warning]
        \* after recall_with_acl returned results
        Recalled(results) ==
            IF a.use_remote /\ results # <<>>
            THEN Reranked(semantic_rerank_with_remote(results, a.remote))
            ELSE Reranked([warning |-> None, results |-> results])
    IN  IF a.use_vector /\ ~a.embed
        THEN [Response(FALSE, "vector embedding failed", st, counter)
                 EXCEPT !.embed_err = TRUE]
        ELSE Recalled(recall_with_acl(st.entries,
                          [terms |-> a.terms,
                           query_embedding |-> IF a.use_vector
                                               THEN Some(Vector("query", a.terms))
                                               ELSE None,
                           requested_scope |-> a.scope,
                           category |-> a.category,
                           candidate_pool |-> candidate_pool], now))

\* a = [scope : Option, category : Option, limit : Option, offset : Option]
exec_memory_list(st, counter, a) ==
    LET limit  == Min(Max(IF a.limit = None THEN 20 ELSE a.limit[1], 1), 100)
        offset == Min(IF a.offset = None THEN 0 ELSE a.offset[1], 20000)
        fetch  == Min(offset + limit, ListAll)
        filtered == filter_entries_by_acl(list(st, fetch), a.scope, a.category)
    IN  IF a.scope # None /\ ~can_access_scope(a.scope[1])
        THEN Response(FALSE, "scope access denied", st, counter)
        ELSE [Response(TRUE, "", st, counter) EXCEPT
                 !.items = [k \in 1..Min(limit, Max(Len(filtered) - offset, 0)) |->
                               [entry |-> filtered[offset + k], score |-> 0]]]

exec_memory_forget(st, counter, id) ==
    LET f == forget_by_id(st, id)
    IN  [Response(f.res # "Err", IF f.res = "Err" THEN "io error" ELSE f.res,
                  f.st, counter) EXCEPT !.target = Some(id)]

exec_memory_update(st, counter, a, now) ==
    LET rows     == list(st, ListAll)
        hits     == {i \in 1..Len(rows) : rows[i].id = a.id}
        existing == rows[CHOOSE i \in hits : \A j \in hits : i <= j]
        merged_scope    == IF a.scope = None THEN existing.scope ELSE a.scope[1]
        merged_category == IF a.category = None THEN existing.category
                           ELSE a.category[1]
        merged_text     == IF a.text = None THEN existing.text ELSE a.text[1]
        merged_tags     == normalize_tags_with_defaults(existing.tags)
        imp0     == resolve_importance(a.importance_level, None)
        imp      == IF imp0.ok THEN imp0
                    ELSE [ok |-> TRUE, importance |-> existing.importance,
                          level |-> importance_level_from_numeric(existing.importance)]
        merged_embedding == IF merged_text # existing.text /\ a.embed[1]
                            THEN Some(Vector("passage", merged_text))
                            ELSE existing.embedding
        denied   == validate_scope_write(merged_scope, merged_tags)
        invalid  == validate_governed_input(merged_text, merged_category,
                                            merged_tags, imp.level)
        forgot   == forget_by_id(st, a.id)
        updated  == store(forgot.st,
                          [text |-> merged_text, category |-> merged_category,
                           scope |-> merged_scope, importance |-> imp.importance,
                           tags |-> merged_tags, embedding |-> merged_embedding], now)
    IN  IF hits = {} THEN Response(FALSE, "memory id not found", st, counter)
        ELSE IF ~can_access_scope(existing.scope)
        THEN Response(FALSE, "scope access denied for existing memory", st, counter)
        ELSE IF ~can_access_scope(merged_scope)
        THEN Response(FALSE, "scope access denied for target scope", st, counter)
        ELSE IF denied # None THEN Response(FALSE, denied[1], st, counter)
        ELSE IF a.governed /\ invalid # "" THEN Response(FALSE, invalid, st, counter)
        ELSE IF forgot.res = "Ok(false)"
        THEN Response(FALSE, "memory id not found", forgot.st, counter)
        ELSE IF forgot.res = "Err" THEN Response(FALSE, "io error", forgot.st, counter)
        ELSE IF ~updated.ok THEN Response(FALSE, updated.err, updated.st, counter)
        ELSE [Response(TRUE, "", updated.st, counter) EXCEPT
                 !.ids = <<updated.entry.id>>,
                 !.decision = IF merged_category = "decision"
                              THEN Some(updated.entry.id) ELSE None,
                 !.embed_err = (merged_text # existing.text /\ ~a.embed[1])]

----------------------------------------------------------------------------
(* The record of the memory tool call handled last.  category is the       *)
(* category the call asked to write; pre_* counts the entries of the       *)
(* call's scope before the call; same tells whether the call left the      *)
(* entry list as it found it; healthy, whether the file system took every  *)
(* write of the call; layers and auto_maintenance are those of the         *)
(* response; pre_entries and pre_disk are the entry list and the database *)
(* file the call found; writes counts                                      *)
(* the store_layer_with_rules calls that have returned Ok so far           *)
(* (pre_writes: before the call).                                          *)
NoReply ==
    [ op |-> "none", ok |-> FALSE, err |-> "", scope |-> GlobalScope,
      governed |-> FALSE, category |-> "", ids |-> <<>>, fact |-> None,
      decision |-> None, maintenance |-> FALSE,
      pre_fact |-> 0, pre_decision |-> 0, pre_total |-> 0, same |-> TRUE,
      healthy |-> TRUE, layers |-> <<>>, auto_maintenance |-> <<>>,
      pre_entries |-> <<>>, pre_disk |-> <<>>, pre_writes |-> 0, writes |-> 0,
      target |-> None, items |-> <<>>, query |-> None, pre_forgotten |-> {},
      tags |-> <<>>, warning |-> None, embed_err |-> FALSE ]

\* the file system accepts every write of the call
Healthy == 64

\* the backend as a call finds it, on a file system that accepts io writes
Backend(io) ==
    [entries |-> entries, next_id |-> next_id, disk |-> disk, io |-> io,
     assigned |-> assigned]

\* a call returns r: the server state and the history after it
Handled(op, scope, governed, category, io, r) ==
    /\ entries' = r.st.entries
    /\ next_id' = r.st.next_id
    /\ disk' = r.st.disk
    /\ assigned' = [i \in 1..Len(r.st.assigned) |->
                        IF i <= Len(assigned) THEN assigned[i]
                        ELSE [r.st.assigned[i] EXCEPT
                                 !.returned = (r.st.assigned[i].id \in Elems(r.ids))]]
    /\ auto_store_counter' = r.counter
    /\ reply' = [ op |-> op, ok |-> r.ok, err |-> r.err, scope |-> scope,
                  governed |-> governed, category |-> category,
                  ids |-> r.ids, fact |-> r.fact,
                  decision |-> r.decision, maintenance |-> r.maintenance,
                  pre_fact     |-> CountIn(entries, scope, {"fact"}),
                  pre_decision |-> CountIn(entries, scope, {"decision"}),
                  pre_total    |-> CountIn(entries, scope,
                                           {entries[i].category : i \in 1..Len(entries)}),
                  same |-> (r.st.entries = entries),
                  healthy |-> (io = Healthy),
                  layers |-> r.layers, auto_maintenance |-> r.auto_maintenance,
                  pre_entries |-> entries, pre_disk |-> disk,
                  pre_writes |-> reply.writes,
                  writes |-> reply.writes
                             + Cardinality({k \in 1..Len(r.layers) : r.layers[k].ok}),
                  target |-> r.target, items |-> r.items, query |-> None,
                  pre_forgotten |-> forgotten, tags |-> r.tags,
                  warning |-> r.warning,
                  embed_err |-> r.embed_err
                                \/ \E k \in 1..Len(r.layers) :
                                       r.layers[k].err = "embedding failed" ]
    /\ forgotten' = IF op = "forget" /\ r.err = "Ok(true)"
                    THEN forgotten \cup {r.target[1]} ELSE forgotten
    /\ UNCHANGED <<clock, sessVars, allowed_scope_rules, runtimeVars>>

(***************************************************************************)
(* The arguments the model sends.                                          *)
(***************************************************************************)
Word(w, n) == <<Piece(<<w>>, n)>>

IncidentA == [symptom |-> Word("timeout", 7), cause |-> Word("cache", 5),
              fix |-> Word("restart", 7), prevention |-> Word("limit", 5)]

IncidentB == [symptom |-> Word("deadlock", 8), cause |-> Word("mutex", 5),
              fix |-> Word("rebuild", 7), prevention |-> Word("audit", 5)]

PrincipleA == [tag |-> Word("net", 3), rule |-> Word("retry", 5),
               trigger |-> Word("timeout", 7), action |-> Word("backoff", 7)]

PrincipleB == [tag |-> Word("sync", 4), rule |-> Word("order", 5),
               trigger |-> Word("deadlock", 8), action |-> Word("audit", 5)]

\* a rule of LongRuleChars characters makes the principle text longer than
\* MaxGovernedChars
LongRuleChars == 460

PrincipleLong == [PrincipleA EXCEPT !.rule = Word("verbose", LongRuleChars)]

NoteText == Word("note", 4)

RuleText == Word("rule", 4)

OtherAgentScope == Scope("agent", "other-agent")

UnknownId == MemId(0)

DualArg(incident, principle, level, governed, scope, embed) ==
    [ symptom |-> incident.symptom, cause |-> incident.cause,
      fix |-> incident.fix, prevention |-> incident.prevention,
      include_principle |-> principle # None, principle |-> principle,
      scope |-> scope, tags |-> <<>>, governed |-> governed,
      use_vector |-> embed # None, embed |-> IF embed = None THEN <<TRUE, TRUE>>
                                             ELSE embed[1],
      tech_importance_level |-> None, principle_importance_level |-> level ]

StoreArg(text, category, level, governed, scope) ==
    [ text |-> text, category |-> category, scope |-> scope,
      importance |-> None, importance_level |-> level, governed |-> governed,
      use_vector |-> FALSE, embed |-> <<TRUE>>, tags |-> <<>> ]

\* a memory_recall without use_vector and use_remote
RecallArg(terms, scope, limit) ==
    [ terms |-> terms, scope |-> scope, category |-> None, limit |-> limit,
      candidate_pool |-> None, use_vector |-> FALSE, use_remote |-> FALSE,
      embed |-> TRUE, remote |-> [cross |-> TRUE, docs |-> "all"] ]

UpdateArg(id, text, category, governed, embed) ==
    [ id |-> id, text |-> text, category |-> category, scope |-> None,
      importance_level |-> None, governed |-> governed, embed |-> <<embed>> ]

(***************************************************************************)
(* One action per tool call; each runs under the store mutex.              *)
(***************************************************************************)
\* tools/call memory_store_dual
MemoryStoreDual(Args, Ios, maxIds) ==
    \E a \in Args, io \in Ios :
        /\ Len(assigned) + 2 <= maxIds
        /\ Handled("store_dual", a.scope, a.governed,
                   IF a.include_principle THEN "decision" ELSE "fact", io,
                   exec_memory_store_dual(Backend(io), auto_store_counter, a, clock))

\* tools/call memory_store
MemoryStore(Args, Ios, maxIds, enforce) ==
    \E a \in Args, io \in Ios :
        /\ Len(assigned) + 1 <= maxIds
        /\ Handled("store", a.scope, a.governed,
                   IF a.category = None THEN infer_default_category(a.text)
                   ELSE a.category[1], io,
                   [exec_memory_store(Backend(io), auto_store_counter, a, clock,
                                      enforce)
                       EXCEPT !.tags = a.tags])

\* tools/call memory_forget
MemoryForget(IdArgs, Ios) ==
    \E id \in IdArgs, io \in Ios :
        Handled("forget", GlobalScope, FALSE, "", io,
                exec_memory_forget(Backend(io), auto_store_counter, id))

\* tools/call memory_update
MemoryUpdate(Texts, Categories, Embeds, Ios, maxIds) ==
    \E id \in Ids(entries) \cup {UnknownId}, text \in Texts, category \in Categories,
       governed \in BOOLEAN, embed \in Embeds, io \in Ios :
        /\ Len(assigned) + 1 <= maxIds
        /\ LET a == UpdateArg(id, text, category, governed, embed)
               old == IF id \in Ids(entries)
                      THEN CHOOSE e \in Elems(entries) : e.id = id
                      ELSE NoEntry
           IN  Handled("update", old.scope, governed,
                       IF category = None THEN old.category ELSE category[1], io,
                       [exec_memory_update(Backend(io), auto_store_counter, a, clock)
                           EXCEPT !.target = Some(id)])

\* the history after a call that only reads the store returned r
Answered(op, a, r) ==
    [NoReply EXCEPT !.op = op, !.ok = r.ok, !.err = r.err,
                    !.items = r.items, !.query = Some(a), !.warning = r.warning,
                    !.embed_err = r.embed_err,
                    !.pre_entries = entries, !.pre_disk = disk,
                    !.pre_writes = reply.writes, !.writes = reply.writes,
                    !.pre_forgotten = forgotten]

\* tools/call memory_recall
MemoryRecall(Args) ==
    \E a \in Args :
        /\ reply' = Answered("recall", a,
                        exec_memory_recall(Backend(Healthy), auto_store_counter,
                                           a, clock))
        /\ UNCHANGED <<clock, sessVars, runtimeVars, entries, next_id, disk,
                       auto_store_counter, assigned, allowed_scope_rules,
                       forgotten>>

\* tools/call memory_list
MemoryList(Args) ==
    \E a \in Args :
        /\ reply' = Answered("list", a,
                        exec_memory_list(Backend(Healthy), auto_store_counter, a))
        /\ UNCHANGED <<clock, sessVars, runtimeVars, entries, next_id, disk,
                       auto_store_counter, assigned, allowed_scope_rules,
                       forgotten>>

\* The process stops and McpServer::with_db_path opens the same file again:
\* the entries are those of the file, the counter restarts at their number,
\* the sessions are gone.
Reopen ==
    /\ entries # disk \/ next_id # open(disk).next_id \/ sessions # << >>
    /\ entries' = open(disk).entries
    /\ next_id' = open(disk).next_id
    /\ auto_store_counter' = Len(Take(Reverse(disk), ListAll))
    /\ sessions' = << >>
    /\ session_counter' = 1
    /\ reply' = [NoReply EXCEPT !.op = "reopen", !.ok = TRUE,
                                !.pre_entries = entries,
                                !.pre_disk = disk,
                                !.pre_writes = reply.writes,
                                !.writes = reply.writes,
                                !.pre_forgotten = forgotten]
    /\ UNCHANGED <<clock, disk, assigned, created, issued, acked, last, stream,
                   runtimeVars,
                   allowed_scope_rules, forgotten>>

----------------------------------------------------------------------------
(* The record of the request handled last.  pre_* is what the handler found *)
(* before it changed anything.                                              *)
NoRequest ==
    [ op |-> "none", sid |-> UnknownSession, now |-> 0, ok |-> FALSE, err |-> "",
      from |-> 0, limit |-> 0, ack |-> None, seq |-> 0, lease |-> 0,
      page |-> EmptyPage,
      pre_present |-> FALSE, pre_lease |-> 0, pre_acked |-> 0, pre_events |-> <<>>,
      pre_ghost_ack |-> 0 ]

Request(op, sid, now) ==
    [ NoRequest EXCEPT
        !.op = op, !.sid = sid, !.now = now,
        !.pre_present   = (sid \in DOMAIN sessions),
        !.pre_lease     = IF sid \in DOMAIN sessions
                          THEN sessions[sid].lease_expires_ms ELSE 0,
        !.pre_acked     = IF sid \in DOMAIN sessions
                          THEN sessions[sid].acked_seq ELSE 0,
        !.pre_events    = IF sid \in DOMAIN sessions
                          THEN sessions[sid].events ELSE <<>>,
        !.pre_ghost_ack = IF sid \in created THEN acked[sid] ELSE 0 ]

(***************************************************************************)
(* Part III - the embedding runtime and the label counters                 *)
(*                                                                         *)
(* EmbedRuntime.  Tokens are counted in millionths of a token and the rate *)
(* in thousandths of a token per second, so that a refill of elapsed_ms    *)
(* milliseconds is elapsed_ms * rate millionths.  A cached vector is       *)
(* modelled by a number that tells the values of two puts apart.           *)
(***************************************************************************)
\* PRX_EMBED_CACHE_CAPACITY and PRX_EMBED_CACHE_TTL_MS as the model sets
\* them: a small cache, and the smallest TTL from_env accepts
CacheCapacity == 2
CacheTtlMs    == 1000

CacheKeys   == {"a", "b", "c"}
CacheValues == {1, 2}

OneToken == 1000000

\* EmbedRuntime::from_env with PRX_EMBED_RATE_LIMIT_RPS = rps / 1000
from_env(capacity, ttl_ms, rps, now) ==
    [ entries |-> << >>, lru |-> <<>>,
      capacity |-> Max(capacity, 1), ttl_ms |-> Max(ttl_ms, 1000),
      tokens |-> Max(rps, 100) * 1000, max_tokens |-> Max(rps, 100) * 1000,
      refill_per_sec |-> Max(rps, 100), last_refill_ms |-> now,
      stats |-> [ cache_hits |-> 0, cache_misses |-> 0, cache_evictions |-> 0,
                  rate_wait_events |-> 0, rate_wait_ms_total |-> 0 ] ]

\* EmbedRuntime::refresh_tokens
refresh_tokens(rt, now) ==
    IF now <= rt.last_refill_ms THEN rt
    ELSE [rt EXCEPT
             !.tokens = Min(@ + (now - rt.last_refill_ms) * rt.refill_per_sec,
                            rt.max_tokens),
             !.last_refill_ms = now]

\* ((deficit / refill_per_sec) * 1000.0).ceil().max(1.0)
rate_wait_ms(deficit, refill_per_sec) ==
    Max((deficit + refill_per_sec - 1) \div refill_per_sec, 1)

\* an acquire_rate_limit that grants every request
acquire_rate_limit_unlimited(rt0, now) ==
    [rt |-> refresh_tokens(rt0, now), wait_ms |-> 0]

\* EmbedRuntime::acquire_rate_limit: the runtime it leaves and the wait
acquire_rate_limit(rt0, now) ==
    LET Refreshed(rt) ==
            IF rt.tokens >= OneToken
            THEN [rt |-> [rt EXCEPT !.tokens = @ - OneToken], wait_ms |-> 0]
            ELSE LET Waits(wait_ms) ==
                         [rt |-> [rt EXCEPT
                                     !.tokens = 0,
                                     !.last_refill_ms = now + wait_ms,
                                     !.stats.rate_wait_events = @ + 1,
                                     !.stats.rate_wait_ms_total = @ + wait_ms],
                          wait_ms |-> wait_ms]
                 IN  Waits(rate_wait_ms(OneToken - rt.tokens, rt.refill_per_sec))
    IN  Refreshed(refresh_tokens(rt0, now))

\* a bump_lru that puts the key at the front
bump_lru_front(lru, key) == <<key>> \o SelectSeq(lru, LAMBDA k : k # key)

\* EmbedRuntime::bump_lru
bump_lru(lru, key) == SelectSeq(lru, LAMBDA k : k # key) \o <<key>>

\* a cache_get that does not look at expire_at_ms
cache_get_forever(rt, key, now) ==
    IF key \in DOMAIN rt.entries
    THEN [rt |-> [rt EXCEPT !.lru = bump_lru(@, key), !.stats.cache_hits = @ + 1],
          value |-> Some(rt.entries[key].value)]
    ELSE [rt |-> [rt EXCEPT !.stats.cache_misses = @ + 1], value |-> None]

\* EmbedRuntime::cache_get: the runtime it leaves and the Option it returns
cache_get(rt, key, now) ==
    IF key \in DOMAIN rt.entries /\ rt.entries[key].expire_at_ms >= now
    THEN [rt |-> [rt EXCEPT !.lru = bump_lru(@, key), !.stats.cache_hits = @ + 1],
          value |-> Some(rt.entries[key].value)]
    ELSE [rt |-> [rt EXCEPT
                     !.entries = Restrict(@, DOMAIN @ \ {key}),
                     !.lru = IF key \in DOMAIN rt.entries
                             THEN SelectSeq(@, LAMBDA k : k # key) ELSE @,
                     !.stats.cache_misses = @ + 1],
          value |-> None]

\* while self.entries.len() > self.capacity { pop_front, remove, count }
RECURSIVE EvictOverflow(_)
EvictOverflow(rt) ==
    IF Cardinality(DOMAIN rt.entries) <= rt.capacity \/ rt.lru = <<>> THEN rt
    ELSE EvictOverflow(
             [rt EXCEPT
                 !.lru = Tail(@),
                 !.entries = Restrict(@, DOMAIN @ \ {Head(rt.lru)}),
                 !.stats.cache_evictions =
                     IF Head(rt.lru) \in DOMAIN rt.entries THEN @ + 1 ELSE @])

\* EmbedRuntime::cache_put
cache_put(rt, key, value, now) ==
    EvictOverflow(
        [rt EXCEPT
            !.entries = [k \in DOMAIN @ \cup {key} |->
                            IF k = key
                            THEN [value |-> value, expire_at_ms |-> now + rt.ttl_ms]
                            ELSE @[k]],
            !.lru = bump_lru(@, key)])

(***************************************************************************)
(* BoundedLabelCounter.  A raw label is a sequence of characters.          *)
(***************************************************************************)
\* PRX_METRICS_MAX_RECALL_SCOPE_LABELS as the model sets it
LabelLimit == 2

LowerCase == [ch \in {"A", "B"} |-> IF ch = "A" THEN "a" ELSE "b"]

\* ch.is_ascii_alphanumeric() || matches!(ch, ':' | '_' | '-' | '.' | '*')
KeptChars == {"a", "b", "A", "B", "1", ":", "_", "-", ".", "*"}

\* raw.trim()
RECURSIVE TrimStart(_)
TrimStart(raw) ==
    IF raw # <<>> /\ Head(raw) = " " THEN TrimStart(Tail(raw)) ELSE raw

RECURSIVE TrimEnd(_)
TrimEnd(raw) ==
    IF raw # <<>> /\ raw[Len(raw)] = " "
    THEN TrimEnd(SubSeq(raw, 1, Len(raw) - 1)) ELSE raw

\* sanitize_label_value
sanitize_label_value(raw) ==
    LET Mapped(t) ==
            [k \in 1..Min(Len(t), 64) |->
                IF t[k] \in DOMAIN LowerCase THEN LowerCase[t[k]]
                ELSE IF t[k] \in KeptChars THEN t[k]
                ELSE "_"]
        Out(out) == IF out = <<>> THEN <<"u", "n", "k", "n", "o", "w", "n">>
                    ELSE out
    IN  Out(Mapped(TrimEnd(TrimStart(raw))))

\* BoundedLabelCounter::new
BoundedLabelCounter_new(max_labels) ==
    [max_labels |-> Max(max_labels, 1), counts |-> << >>, overflow |-> 0]

\* a record that stores every label
record_unbounded(c, raw_label) ==
    LET Counted(label) ==
            [c EXCEPT !.counts = [l \in DOMAIN @ \cup {label} |->
                                     IF l \in DOMAIN @ THEN
                                         IF l = label THEN @[l] + 1 ELSE @[l]
                                     ELSE 1]]
    IN  Counted(sanitize_label_value(raw_label))

\* BoundedLabelCounter::record
record(c, raw_label) ==
    LET Counted(label) ==
            IF label \in DOMAIN c.counts
            THEN [c EXCEPT !.counts[label] = @ + 1]
            ELSE IF Cardinality(DOMAIN c.counts) < c.max_labels
            THEN [c EXCEPT !.counts = [l \in DOMAIN @ \cup {label} |->
                                          IF l = label THEN 1 ELSE @[l]]]
            ELSE [c EXCEPT !.overflow = @ + 1]
    IN  Counted(sanitize_label_value(raw_label))

(***************************************************************************)
(* The record of the call on the runtime handled last, and the history the *)
(* properties of the cache and of the limiter are stated on:               *)
(*   calls   : the number of calls so far;                                 *)
(*   pre     : the runtime, or the label counter, the call found;          *)
(*   puts    : per key, the value and the time of the last cache_put, and  *)
(*             whether the key has been evicted since (None: never put);   *)
(*   pre_puts: puts before the call;                                       *)
(*   used    : per key, the number of the call that inserted or hit it     *)
(*             last (pre_used: before the call);                           *)
(*   burst   : the waits of the acquisitions made at the instant burst_at, *)
(*             the first of which found the bucket full.                   *)
(***************************************************************************)
NoMeasure ==
    [ op |-> "none", key |-> "", now |-> 0, value |-> None, wait_ms |-> 0,
      label |-> <<>>, calls |-> 0, records |-> 0,
      pre |-> << >>,
      puts |-> [k \in CacheKeys |-> None], pre_puts |-> [k \in CacheKeys |-> None],
      used |-> [k \in CacheKeys |-> 0], pre_used |-> [k \in CacheKeys |-> 0],
      burst |-> <<>>, burst_at |-> 0 ]

(***************************************************************************)
(* Handlers on several threads.  handle_request takes &self and every      *)
(* shared field of McpServer is behind a mutex, so a caller may run        *)
(* handlers on several threads at once.  A handler is a sequence of steps; *)
(* a step is what the handler does between two points where another       *)
(* thread could run.  handlers.th[t] tells where thread t stands:          *)
(*   pc      : "idle", "blocked" (in store.lock(), the mutex being held),  *)
(*             "gate", "cache_get", "acquire", "sleeping", "provider",     *)
(*             "append", "verify", "count", "rollback", "respond";         *)
(*   held    : the mutexes whose guard the thread holds;                   *)
(*   layer   : the store_layer_with_rules call of memory_store_dual it is  *)
(*             in (1 technical, 2 principle);                              *)
(*   pending : the ids of the entries the handler appended and has neither *)
(*             rolled back nor returned yet;                               *)
(*   wake    : the clock at which its sleep ends;                          *)
(*   base    : the store, the counter and the clock when it took the lock; *)
(*   waited  : history, the entries that were pending in another handler   *)
(*             when it found the mutex held.                               *)
(* handlers.rolled_back are the ids of entries removed by a rollback,      *)
(* handlers.observed the ids a list or recall of another handler returned, *)
(* handlers.exposed those of them that were pending when returned.         *)
(***************************************************************************)
Threads == {1, 2}

NoBase == [entries |-> <<>>, next_id |-> 0, counter |-> 0, clock |-> 0,
           embed_runtime |-> << >>]

IdleHandler ==
    [ pc |-> "idle", op |-> "none", held |-> {}, layer |-> 0, a |-> << >>,
      tech |-> None, fresh |-> None, pending |-> {}, wake |-> 0, err |-> "",
      ok |-> FALSE, base |-> NoBase, waited |-> {}, slept |-> FALSE,
      seen |-> {}, calls |-> 0 ]

NoHandlers ==
    [ th |-> [t \in Threads |-> IdleHandler], rolled_back |-> {},
      observed |-> {}, exposed |-> {} ]

\* a mutex that never blocks
store_lock_open(h) == TRUE

\* self.store.lock() returns at once: no thread holds the guard
store_lock_free(h) == \A t \in Threads : "store" \notin h.th[t].held

Pending(h) == UNION {h.th[t].pending : t \in Threads}

\* the StoreLayerRequest of a layer of memory_store_dual
LayerRequest(a, layer) ==
    LET imp == resolve_importance(IF layer = 1 THEN a.tech_importance_level
                                  ELSE a.principle_importance_level, Some(75))
    IN  [text |-> IF layer = 1 THEN TechText(a) ELSE PrincipleText(a.principle[1]),
         category |-> IF layer = 1 THEN "fact" ELSE "decision",
         scope |-> a.scope, importance |-> imp.importance,
         importance_level |-> imp.level,
         tags |-> normalize_tags_with_defaults(a.tags), governed |-> a.governed,
         use_vector |-> a.use_vector, enforce_verify |-> TRUE,
         allow_auto_maintenance |-> TRUE]

\* store_layer_with_rules before the embedding: the error it returns with,
\* "" when it goes on
layer_gate(ents, req, now) ==
    LET Gated(denied, invalid, maybe_dup, ratio) ==
            IF ~can_access_scope(req.scope) THEN "scope access denied"
            ELSE IF denied # None THEN denied[1]
            ELSE IF req.governed /\ invalid # "" THEN invalid
            ELSE IF /\ req.governed
                    /\ maybe_dup # <<>>
                    /\ maybe_dup[1].score > DuplicateScore
                 THEN "duplicate memory likely exists"
            ELSE IF /\ req.governed
                    /\ req.category = "decision"
                    /\ RatioAbove(ratio.decision, ratio.total)
                 THEN "decision memory ratio exceeds 30% in current scope"
            ELSE ""
    IN  Gated(validate_scope_write(req.scope, req.tags),
              validate_governed_input(req.text, req.category, req.tags,
                                      req.importance_level),
              recall_entries(ents,
                  [terms |-> compact_query(req.text, 10),
                   query_embedding |-> None,
                   scope |-> Some(req.scope), category |-> Some(req.category),
                   limit |-> 3], now),
              decision_ratio_in_scope([entries |-> ents], req.scope))

\* the post-store recall finds the entry
layer_verified(ents, entry, now) ==
    LET Found(verify) == \E k \in 1..Len(verify) : verify[k].entry.id = entry.id
    IN  Found(recall_entries(ents,
                  [terms |-> compact_query(entry.text, 8),
                   query_embedding |-> None,
                   scope |-> Some(entry.scope),
                   category |-> Some(entry.category),
                   limit |-> 5], now))

\* format!("{}|{}|{}", provider, task, text.trim().to_ascii_lowercase())
embed_key(task, text) == <<task, to_lowercase(text)>>

\* the process starts: EmbedRuntime::from_env and MetricsRegistry::new
RuntimeStart(Rates) ==
    /\ \E rps \in Rates :
           embed_runtime = from_env(CacheCapacity, CacheTtlMs, rps, 0)
    /\ recall_scope = BoundedLabelCounter_new(LabelLimit)
    /\ measured = NoMeasure
    /\ handlers = NoHandlers

\* runtime.cache_get(&key, now_ms())
CacheGet(maxCalls) ==
    \E key \in CacheKeys :
        LET r == cache_get(embed_runtime, key, clock)
        IN  /\ measured.calls < maxCalls
            /\ embed_runtime' = r.rt
            /\ measured' = [measured EXCEPT
                   !.op = "get", !.key = key, !.now = clock, !.value = r.value,
                   !.calls = @ + 1, !.pre = embed_runtime,
                   !.pre_puts = measured.puts, !.pre_used = measured.used,
                   !.used = IF r.value # None
                            THEN [@ EXCEPT ![key] = measured.calls + 1] ELSE @]
            /\ UNCHANGED <<clock, sessVars, storeVars, recall_scope, handlers>>

\* runtime.cache_put(key, vector, now_ms())
CachePut(maxCalls) ==
    \E key \in CacheKeys, value \in CacheValues :
        LET rt == cache_put(embed_runtime, key, value, clock)
        IN  /\ measured.calls < maxCalls
            /\ embed_runtime' = rt
            /\ measured' = [measured EXCEPT
                   !.op = "put", !.key = key, !.now = clock, !.value = Some(value),
                   !.calls = @ + 1, !.pre = embed_runtime,
                   !.pre_puts = measured.puts, !.pre_used = measured.used,
                   !.used = [@ EXCEPT ![key] = measured.calls + 1],
                   !.puts = [k \in CacheKeys |->
                                IF k = key
                                THEN Some([value |-> value, t |-> clock,
                                           live |-> TRUE])
                                ELSE IF /\ k \in DOMAIN embed_runtime.entries
                                        /\ k \notin DOMAIN rt.entries
                                        /\ measured.puts[k] # None
                                THEN Some([measured.puts[k][1] EXCEPT
                                              !.live = FALSE])
                                ELSE measured.puts[k]]]
            /\ UNCHANGED <<clock, sessVars, storeVars, recall_scope, handlers>>

\* runtime.acquire_rate_limit(now_ms())
AcquireRateLimit(maxCalls) ==
    LET r    == acquire_rate_limit(embed_runtime, clock)
        full == refresh_tokens(embed_runtime, clock).tokens
                    = embed_runtime.max_tokens
    IN  /\ measured.calls < maxCalls
        /\ embed_runtime' = r.rt
        /\ measured' = [measured EXCEPT
               !.op = "acquire", !.now = clock, !.wait_ms = r.wait_ms,
               !.calls = @ + 1, !.pre = embed_runtime,
               !.burst = IF @ # <<>> /\ measured.burst_at = clock
                         THEN Append(@, r.wait_ms)
                         ELSE IF full THEN <<r.wait_ms>>
                         ELSE <<>>,
               !.burst_at = clock]
        /\ UNCHANGED <<clock, sessVars, storeVars, recall_scope, handlers>>

\* locked.recall_scope.record(scope)
RecordLabel(Labels, maxRecords) ==
    \E raw_label \in Labels :
        /\ measured.records < maxRecords
        /\ recall_scope' = record(recall_scope, raw_label)
        /\ measured' = [measured EXCEPT
               !.op = "record", !.label = raw_label, !.records = @ + 1,
               !.pre = recall_scope]
        /\ UNCHANGED <<clock, sessVars, storeVars, embed_runtime, handlers>>

(***************************************************************************)
(* The steps of the handlers.  A step leaves the session state, the rule   *)
(* set and the histories of the other parts alone.                         *)
(***************************************************************************)
HandlerFrame ==
    UNCHANGED <<sessVars, allowed_scope_rules, forgotten, reply, recall_scope,
                measured>>

StoreUnchanged == UNCHANGED <<entries, next_id, disk, assigned>>

\* the backend as a step leaves it
Stored(st) ==
    /\ entries' = st.entries
    /\ next_id' = st.next_id
    /\ disk' = st.disk
    /\ assigned' = st.assigned

At(t, pc) == handlers.th[t].pc = pc

\* the layer returns Err(err): memory_store_dual returns with it from the
\* technical layer and rolls the technical entry back from the principle
\* layer
LayerFailed(me, err) ==
    [me EXCEPT !.pc = IF me.layer = 1 THEN "respond" ELSE "rollback",
               !.ok = FALSE, !.err = err]

\* a thread enters exec_memory_store_dual, exec_memory_list or
\* exec_memory_recall and reaches self.store.lock()
Call(DualArgs, maxCalls) ==
    \E t \in Threads, op \in {"store_dual", "list", "recall"} :
        \E a \in IF op = "store_dual" THEN DualArgs ELSE {<< >>} :
            /\ At(t, "idle")
            /\ handlers.th[t].calls < maxCalls
            /\ handlers' = [handlers EXCEPT !.th[t] =
                   [@ EXCEPT !.pc = "blocked", !.op = op, !.a = a,
                             !.waited = IF store_lock_free(handlers) THEN {}
                                        ELSE Pending(handlers)]]
            /\ UNCHANGED <<clock, auto_store_counter, embed_runtime>>
            /\ StoreUnchanged
            /\ HandlerFrame

\* store.lock() returns in exec_memory_store_dual
EnterDual ==
    \E t \in Threads :
        /\ At(t, "blocked")
        /\ handlers.th[t].op = "store_dual"
        /\ store_lock_free(handlers)
        /\ handlers' = [handlers EXCEPT !.th[t] =
               [@ EXCEPT !.pc = "gate", !.held = {"store"}, !.layer = 1,
                         !.tech = None, !.fresh = None, !.pending = {},
                         !.err = "", !.ok = FALSE, !.slept = FALSE,
                         !.base = [entries |-> entries, next_id |-> next_id,
                                   counter |-> auto_store_counter,
                                   clock |-> clock,
                                   embed_runtime |-> embed_runtime]]]
        /\ UNCHANGED <<clock, auto_store_counter, embed_runtime>>
        /\ StoreUnchanged
        /\ HandlerFrame

\* exec_memory_list and exec_memory_recall (without use_vector): the lock,
\* the read and the drop of the guard
Read(ListArgs, RecallArgs) ==
    \E t \in Threads :
        \E a \in IF handlers.th[t].op = "list" THEN ListArgs ELSE RecallArgs :
            LET r == IF handlers.th[t].op = "list"
                     THEN exec_memory_list(Backend(Healthy), auto_store_counter, a)
                     ELSE exec_memory_recall(Backend(Healthy), auto_store_counter,
                                             a, clock)
                Returned(ids) ==
                    handlers' = [handlers EXCEPT
                        !.th[t] = [@ EXCEPT !.pc = "idle", !.seen = ids,
                                            !.calls = @ + 1],
                        !.observed = @ \cup ids,
                        !.exposed = @ \cup (ids \cap Pending(handlers))]
            IN  /\ At(t, "blocked")
                /\ handlers.th[t].op \in {"list", "recall"}
                /\ store_lock_free(handlers)
                /\ Returned({r.items[k].entry.id : k \in 1..Len(r.items)})
                /\ UNCHANGED <<clock, auto_store_counter, embed_runtime>>
                /\ StoreUnchanged
                /\ HandlerFrame

\* store_layer_with_rules up to the embedding
Gate ==
    \E t \in Threads :
        LET me  == handlers.th[t]
            req == LayerRequest(me.a, me.layer)
            Gated(err) ==
                handlers' = [handlers EXCEPT !.th[t] =
                    IF err # "" THEN LayerFailed(me, err)
                    ELSE [me EXCEPT !.pc = IF req.use_vector THEN "cache_get"
                                           ELSE "append"]]
        IN  /\ At(t, "gate")
            /\ Gated(layer_gate(entries, req, clock))
            /\ UNCHANGED <<clock, auto_store_counter, embed_runtime>>
            /\ StoreUnchanged
            /\ HandlerFrame

\* embed_one: the cache lookup under the runtime lock
EmbedCacheGet ==
    \E t \in Threads :
        LET me  == handlers.th[t]
            req == LayerRequest(me.a, me.layer)
            r   == cache_get(embed_runtime, embed_key("passage", req.text), clock)
        IN  /\ At(t, "cache_get")
            /\ embed_runtime' = r.rt
            /\ handlers' = [handlers EXCEPT !.th[t].pc =
                   IF r.value # None THEN "append" ELSE "acquire"]
            /\ UNCHANGED <<clock, auto_store_counter>>
            /\ StoreUnchanged
            /\ HandlerFrame

\* embed_one: acquire_rate_limit under the runtime lock; the guard is
\* dropped at the end of the block, before the sleep
EmbedAcquire ==
    \E t \in Threads :
        LET r == acquire_rate_limit(embed_runtime, clock)
        IN  /\ At(t, "acquire")
            /\ embed_runtime' = r.rt
            /\ handlers' = [handlers EXCEPT !.th[t] =
                   IF r.wait_ms > 0
                   THEN [@ EXCEPT !.pc = "sleeping", !.wake = clock + r.wait_ms,
                                  !.slept = TRUE]
                   ELSE [@ EXCEPT !.pc = "provider"]]
            /\ UNCHANGED <<clock, auto_store_counter>>
            /\ StoreUnchanged
            /\ HandlerFrame

\* std::thread::sleep(Duration::from_millis(wait_ms)) returns
EmbedWake ==
    \E t \in Threads :
        /\ At(t, "sleeping")
        /\ clock >= handlers.th[t].wake
        /\ handlers' = [handlers EXCEPT !.th[t].pc = "provider"]
        /\ UNCHANGED <<clock, auto_store_counter, embed_runtime>>
        /\ StoreUnchanged
        /\ HandlerFrame

\* embed_one: the provider answers, and the vector is put in the cache
EmbedProvider(Answers) ==
    \E t \in Threads, answered \in Answers :
        LET me  == handlers.th[t]
            req == LayerRequest(me.a, me.layer)
        IN  /\ At(t, "provider")
            /\ embed_runtime' =
                   IF answered
                   THEN cache_put(embed_runtime, embed_key("passage", req.text),
                                  Vector("passage", req.text), clock)
                   ELSE embed_runtime
            /\ handlers' = [handlers EXCEPT !.th[t] =
                   IF answered THEN [me EXCEPT !.pc = "append"]
                   ELSE LayerFailed(me, "embedding failed")]
            /\ UNCHANGED <<clock, auto_store_counter>>
            /\ StoreUnchanged
            /\ HandlerFrame

\* store.store(NewMemoryEntry { .. })
LayerAppend ==
    \E t \in Threads :
        LET me  == handlers.th[t]
            req == LayerRequest(me.a, me.layer)
            Appended(r) ==
                /\ Stored(r.st)
                /\ handlers' = [handlers EXCEPT !.th[t] =
                       IF ~r.ok THEN LayerFailed(me, r.err)
                       ELSE [me EXCEPT !.pc = "verify", !.fresh = Some(r.entry),
                                       !.pending = @ \cup {r.entry.id}]]
        IN  /\ At(t, "append")
            /\ Appended(store(Backend(Healthy),
                              [text |-> req.text, category |-> req.category,
                               scope |-> req.scope, importance |-> req.importance,
                               tags |-> req.tags,
                               embedding |-> IF req.use_vector
                                             THEN Some(Vector("passage", req.text))
                                             ELSE None], clock))
            /\ UNCHANGED <<clock, auto_store_counter, embed_runtime>>
            /\ HandlerFrame

\* the post-store recall, and the forget_by_id when it does not find the
\* entry
LayerVerify ==
    \E t \in Threads :
        LET me    == handlers.th[t]
            entry == me.fresh[1]
        IN  /\ At(t, "verify")
            /\ IF layer_verified(entries, entry, clock)
               THEN /\ handlers' = [handlers EXCEPT !.th[t].pc = "count"]
                    /\ StoreUnchanged
               ELSE /\ Stored(forget_by_id(Backend(Healthy), entry.id).st)
                    /\ handlers' = [handlers EXCEPT
                           !.th[t] = LayerFailed(
                               [me EXCEPT !.pending = @ \ {entry.id}],
                               "post-store recall verification failed"),
                           !.rolled_back = @ \cup {entry.id}]
            /\ UNCHANGED <<clock, auto_store_counter, embed_runtime>>
            /\ HandlerFrame

\* the counter under its mutex, the maintenance pass when it is due, and
\* the return of the layer
Count ==
    \E t \in Threads :
        LET me  == handlers.th[t]
            req == LayerRequest(me.a, me.layer)
        IN  /\ At(t, "count")
            /\ auto_store_counter' = auto_store_counter + 1
            /\ IF should_trigger(req, auto_store_counter + 1)
               THEN Stored(run_periodic_maintenance(Backend(Healthy)).st)
               ELSE StoreUnchanged
            /\ handlers' = [handlers EXCEPT !.th[t] =
                   IF me.layer = 1 /\ me.a.include_principle
                   THEN [me EXCEPT !.pc = "gate", !.layer = 2,
                                   !.tech = Some(me.fresh[1].id)]
                   ELSE [me EXCEPT !.pc = "respond", !.ok = TRUE,
                                   !.tech = IF me.layer = 1
                                            THEN Some(me.fresh[1].id) ELSE @]]
            /\ UNCHANGED <<clock, embed_runtime>>
            /\ HandlerFrame

\* let _ = locked.forget_by_id(&technical.entry.id)
Rollback ==
    \E t \in Threads :
        LET me == handlers.th[t]
        IN  /\ At(t, "rollback")
            /\ Stored(forget_by_id(Backend(Healthy), me.tech[1]).st)
            /\ handlers' = [handlers EXCEPT
                   !.th[t] = [me EXCEPT
                       !.pc = "respond", !.pending = @ \ {me.tech[1]},
                       !.err = "principle layer store failed, rolled back technical layer"],
                   !.rolled_back = @ \cup {me.tech[1]}]
            /\ UNCHANGED <<clock, auto_store_counter, embed_runtime>>
            /\ HandlerFrame

\* the handler returns and the guard of the store is dropped
Respond ==
    \E t \in Threads :
        /\ At(t, "respond")
        /\ handlers' = [handlers EXCEPT !.th[t] =
               [@ EXCEPT !.pc = "idle", !.held = {}, !.pending = {},
                         !.calls = @ + 1]]
        /\ UNCHANGED <<clock, auto_store_counter, embed_runtime>>
        /\ StoreUnchanged
        /\ HandlerFrame

\* time passes while a thread sleeps
SleepTick(maxTicks) ==
    /\ \E t \in Threads : At(t, "sleeping") /\ clock < handlers.th[t].wake
    /\ clock < maxTicks * TickMs
    /\ clock' = clock + TickMs
    /\ UNCHANGED <<sessVars, storeVars, runtimeVars>>

SessionArgs == created \cup {UnknownSession}

RECURSIVE SumLen(_, _)
SumLen(f, S) ==
    IF S = {} THEN 0
    ELSE LET x == CHOOSE y \in S : TRUE IN Len(f[x]) + SumLen(f, S \ {x})

\* number of events appended so far, over all sessions
TotalIssued == SumLen(issued, created)

SessInit ==
    /\ allowed_scope_rules = DefaultScopeRules
    /\ forgotten = {}
    /\ clock = 0
    /\ sessions = << >>
    /\ session_counter = 1
    /\ created = {}
    /\ issued = << >>
    /\ acked = << >>
    /\ last = NoRequest
    /\ stream = NoStream
    /\ RuntimeStart({1000})
    /\ entries = << >>
    /\ next_id = 1
    /\ disk = << >>
    /\ auto_store_counter = 0
    /\ assigned = << >>
    /\ reply = NoReply

Tick(maxTicks) ==
    /\ clock < maxTicks * TickMs
    /\ clock' = clock + TickMs
    /\ UNCHANGED <<sessVars, storeVars, runtimeVars>>

\* POST /mcp/session/start
CreateSession(maxSessions) ==
    /\ Cardinality(created) < maxSessions
    /\ LET r == create_session(sessions, session_counter, clock)
       IN  /\ sessions' = r.sessions
           /\ session_counter' = session_counter + 1
           /\ created' = created \cup {r.id}
           /\ issued' = [s \in created \cup {r.id} |->
                            IF s = r.id THEN <<>> ELSE issued[s]]
           /\ acked' = [s \in created \cup {r.id} |->
                            IF s = r.id THEN 0 ELSE acked[s]]
           /\ last' = [Request("create", r.id, clock) EXCEPT
                          !.ok = TRUE, !.lease = r.lease]
    /\ UNCHANGED <<clock, stream, storeVars, runtimeVars>>

\* POST /mcp/session/renew?session=<id>
RenewSession(lag) ==
    \E sid \in SessionArgs, now \in NowReads(lag) :
        LET r == renew_session_lease(sessions, sid, now)
        IN  /\ sessions' = r.sessions
            /\ last' = [Request("renew", sid, now) EXCEPT
                           !.ok = r.ok, !.err = r.err, !.lease = r.lease]
            /\ UNCHANGED <<clock, session_counter, created, issued, acked, stream,
                           storeVars, runtimeVars>>

\* POST /mcp/stream?session=<id>
AppendEvent(maxAppends, lag) ==
    \E sid \in SessionArgs, now \in NowReads(lag) :
        /\ TotalIssued < maxAppends
        /\ LET r == append_session_event(sessions, sid, now)
           IN  /\ sessions' = r.sessions
               /\ issued' = IF r.ok
                            THEN [issued EXCEPT ![sid] = Append(@, r.seq)]
                            ELSE issued
               /\ last' = [Request("append", sid, now) EXCEPT
                              !.ok = r.ok, !.err = r.err, !.seq = r.seq,
                              !.lease = r.lease]
        /\ UNCHANGED <<clock, session_counter, created, acked, stream, storeVars,
                       runtimeVars>>

\* GET /mcp/stream?session=<id>&from=<u>&limit=<u>&ack=<u>
CollectEvents(Froms, Limits, Acks, lag) ==
    \E sid \in SessionArgs, now \in NowReads(lag),
       from \in Froms, limit \in Limits, ack \in Acks :
        LET r == collect_session_events(sessions, sid, from, limit, ack, now)
        IN  /\ sessions' = r.sessions
            /\ acked' = IF r.ok /\ ack # None
                        THEN [acked EXCEPT ![sid] = Max(@, ack[1])]
                        ELSE acked
            /\ last' = [Request("collect", sid, now) EXCEPT
                           !.ok = r.ok, !.err = r.err, !.from = from,
                           !.limit = limit, !.ack = ack, !.page = r.page,
                           !.lease = r.page.lease_expires_ms]
            /\ UNCHANGED <<clock, session_counter, created, issued, stream,
                           storeVars, runtimeVars>>

\* the server is in its accept loop, not inside handle_http_stream_sse
Accepting == stream.pc # "polling"

\* GET /mcp/stream?mode=sse&session=<id>&from=<u>&limit=<u>&ack=<u>&wait_ms=<u>:
\* the first collect, the headers and the events of the first page
OpenStream(Froms, Limits, Acks, Waits, maxStreams) ==
    \E sid \in SessionArgs, from \in Froms, limit \in Limits, ack \in Acks,
       wait_ms \in Waits :
        LET r == collect_session_events(sessions, sid, sse_from(from),
                                        sse_limit(limit), ack, clock)
        IN  /\ Accepting
            /\ stream.n < maxStreams
            /\ sessions' = r.sessions
            /\ acked' = IF r.ok /\ ack # None
                        THEN [acked EXCEPT ![sid] = Max(@, ack[1])]
                        ELSE acked
            /\ stream' = sse_open(sid, sse_from(from), sse_limit(limit),
                                  sse_wait_ms(wait_ms), r, clock,
                                  IF sid \in created THEN Len(issued[sid]) ELSE 0,
                                  stream.n + 1)
            /\ UNCHANGED <<clock, session_counter, created, issued, last,
                           storeVars, runtimeVars>>

\* one turn of the loop: the test of remaining and of the deadline, then the
\* sleep and the poll, or the cursor event after the loop
StreamStep ==
    /\ stream.pc = "polling"
    /\ IF stream.remaining > 0 /\ clock < stream.deadline
       THEN /\ clock' = clock + PollMs
            /\ LET r == collect_session_events(sessions, stream.sid,
                                               sse_poll_from(stream),
                                               stream.remaining, None,
                                               clock + PollMs)
               IN  /\ sessions' = r.sessions
                   /\ stream' = sse_polled(stream, r)
       ELSE /\ stream' = sse_close(stream)
            /\ UNCHANGED <<clock, sessions>>
    /\ UNCHANGED <<session_counter, created, issued, acked, last, storeVars,
                   runtimeVars>>

\* a client sends POST /mcp/stream?session=<id> for the session of the open
\* stream: the connection reaches the listener
Connect(maxArrivals) ==
    /\ stream.pc = "polling"
    /\ stream.arrived < maxArrivals
    /\ stream' = [stream EXCEPT !.arrived = @ + 1]
    /\ UNCHANGED <<clock, sessions, session_counter, created, issued, acked,
                   last, storeVars, runtimeVars>>

vars == <<clock, sessions, session_counter, created, issued, acked, last, stream,
         entries, next_id, disk, auto_store_counter, assigned,
         allowed_scope_rules, forgotten, reply, embed_runtime, recall_scope,
         measured, handlers>>

\* One session, every argument of collect: the event queue in detail.
SessNext ==
    \/ Tick(MaxTicks)
    \/ CreateSession(MaxSessions)
    \/ RenewSession(SessLag)
    \/ AppendEvent(MaxAppends, SessLag)
    \/ CollectEvents(0..MaxFrom, 1..MaxLimit,
                     {None} \cup {Some(k) : k \in 0..MaxFrom}, SessLag)

SessSpec == SessInit /\ [][SessNext]_vars

\* Several sessions, few events: leases and expiry in detail.
LeaseNext ==
    \/ Tick(MaxTicks)
    \/ CreateSession(LeaseSessions)
    \/ RenewSession(LeaseLag)
    \/ AppendEvent(LeaseAppends, LeaseLag)
    \/ CollectEvents({1}, {MaxLimit}, {None, Some(1)}, LeaseLag)

LeaseSpec == SessInit /\ [][LeaseNext]_vars

\* The HTTP server with SSE requests: one connection at a time.  The clock
\* moves with the sleeps of the loop; a sleep may last HttpTicks ticks longer.
HttpSessions == 1
HttpAppends  == 2
HttpTicks    == 2
HttpArrivals == 1
HttpStreams  == 1

HttpNext ==
    \/ ~Accepting /\ Tick(HttpTicks)
    \/ Accepting /\ CreateSession(HttpSessions)
    \/ Accepting /\ AppendEvent(HttpAppends, SessLag)
    \/ OpenStream({None, Some(2)}, {Some(1), Some(2)}, {None, Some(1)},
                  {Some(0), Some(3 * PollMs)}, HttpStreams)
    \/ OpenStream({None}, {None}, {None}, {None, Some(100000)}, HttpStreams)
    \/ StreamStep
    \/ Connect(HttpArrivals)

HttpSpec == SessInit /\ [][HttpNext]_vars

\* the handler thread is scheduled again after every sleep
HttpLiveSpec == HttpSpec /\ WF_vars(StreamStep)

\* One session that has taken CapFill appends since it was created and no
\* ack: the event queue at its cap.
CapSession == SessionId(0, 1)

CapInit ==
    /\ allowed_scope_rules = DefaultScopeRules
    /\ forgotten = {}
    /\ clock = 0
    /\ sessions = [s \in {CapSession} |->
                     [NewSessionState(0) EXCEPT
                        !.next_seq = CapFill + 1,
                        !.events = TrimToCap([k \in 1..CapFill |-> [seq |-> k]])]]
    /\ session_counter = 2
    /\ created = {CapSession}
    /\ issued = [s \in {CapSession} |-> [k \in 1..CapFill |-> k]]
    /\ acked = [s \in {CapSession} |-> 0]
    /\ last = NoRequest
    /\ stream = NoStream
    /\ RuntimeStart({1000})
    /\ entries = << >>
    /\ next_id = 1
    /\ disk = << >>
    /\ auto_store_counter = 0
    /\ assigned = << >>
    /\ reply = NoReply

CapNext ==
    \/ Tick(MaxTicks)
    \/ RenewSession(SessLag)
    \/ AppendEvent(CapFill + CapAppends, SessLag)
    \/ CollectEvents({1, CapFill}, {MaxLimit}, {None, Some(1), Some(MaxFrom)}, SessLag)

CapSpec == CapInit /\ [][CapNext]_vars

(***************************************************************************)
(* The memory tools on a store that starts empty.  The server has handled  *)
(* StartCounter successful stores before (and as many forgets), so that    *)
(* the counter can reach AutoMaintenanceEvery within a few calls.          *)
(***************************************************************************)
StartCounters == {0, AutoMaintenanceEvery - 2}

StoreInit ==
    /\ allowed_scope_rules = DefaultScopeRules
    /\ forgotten = {}
    /\ clock = 0
    /\ sessions = << >>
    /\ session_counter = 1
    /\ created = {}
    /\ issued = << >>
    /\ acked = << >>
    /\ last = NoRequest
    /\ stream = NoStream
    /\ RuntimeStart({1000})
    /\ entries = << >>
    /\ disk = << >>
    /\ \E c \in StartCounters : auto_store_counter = c /\ next_id = c + 1
    /\ assigned = << >>
    /\ reply = NoReply

IoFaults == (0..MaxFaultAt) \cup {Healthy}

StoreDualArgs ==
    {DualArg(i, p, l, g, s, e) :
        i \in {IncidentA},
        p \in {None, Some(PrincipleA), Some(PrincipleLong)},
        l \in {None, Some("low")},
        g \in BOOLEAN,
        s \in {GlobalScope},
        e \in {None, Some(<<TRUE, FALSE>>)}}

StoreArgs ==
    {StoreArg(t, None, None, g, s) :
        t \in {NoteText, PrincipleText(PrincipleB)},
        g \in BOOLEAN,
        s \in {GlobalScope, OtherAgentScope}}

StoreNext ==
    \/ Tick(StoreTicks)
    \/ MemoryStoreDual(StoreDualArgs, IoFaults, MaxIds)
    \/ MemoryStore(StoreArgs, IoFaults, MaxIds, TRUE)
    \/ MemoryForget(Ids(entries) \cup {UnknownId}, IoFaults)
    \/ MemoryUpdate({None, Some(NoteText)}, {None, Some("decision")}, {TRUE},
                    IoFaults, MaxIds)
    \/ Reopen

StoreSpec == StoreInit /\ [][StoreNext]_vars

(***************************************************************************)
(* The memory tools on a store that holds PreFacts facts and PreDecisions  *)
(* decisions in the global scope, written by ungoverned memory_store       *)
(* calls, with single-layer governed writes switched on                    *)
(* (PRX_MEMORY_ENFORCE_DUAL_LAYER=0).                                      *)
(***************************************************************************)
Preloaded(n, text, category) ==
    [ id |-> MemId(n), text |-> to_lowercase(text), category |-> category,
      scope |-> GlobalScope, importance |-> 50,
      tags |-> normalize_tags_with_defaults(<<>>), timestamp_ms |-> 0,
      embedding |-> None ]

Preload ==
    [n \in 1..(PreFacts + PreDecisions) |->
        IF n <= PreFacts THEN Preloaded(n, NoteText, "fact")
        ELSE Preloaded(n, RuleText, "decision")]

RatioInit ==
    /\ allowed_scope_rules = DefaultScopeRules
    /\ forgotten = {}
    /\ clock = 0
    /\ sessions = << >>
    /\ session_counter = 1
    /\ created = {}
    /\ issued = << >>
    /\ acked = << >>
    /\ last = NoRequest
    /\ stream = NoStream
    /\ RuntimeStart({1000})
    /\ entries = Preload
    /\ disk = Preload
    /\ next_id = open(Preload).next_id
    /\ auto_store_counter = Len(Preload)
    /\ assigned = << >>
    /\ reply = NoReply

RatioStoreArgs ==
    {StoreArg(t, None, l, g, GlobalScope) :
        t \in {PrincipleText(PrincipleA), PrincipleText(PrincipleB)},
        l \in {None, Some("high")},
        g \in BOOLEAN}

\* the oldest fact, the newest decision, the first new entry, no entry
RatioForgetArgs ==
    {MemId(1), MemId(Len(Preload)), MemId(Len(Preload) + 1), UnknownId}

RatioNext ==
    \/ Tick(StoreTicks)
    \/ MemoryStore(RatioStoreArgs, IoFaults, RatioIds, FALSE)
    \/ MemoryForget(RatioForgetArgs, IoFaults)

RatioSpec == RatioInit /\ [][RatioNext]_vars

(***************************************************************************)
(* The memory tools on a server that has done AutoMaintenanceEvery - 2 or  *)
(* AutoMaintenanceEvery - 1 successful writes since it started on an empty *)
(* store, of which at most MaintPreload entries are left: the next writes  *)
(* run a maintenance pass over them.  The entries left were written by     *)
(* ungoverned memory_store calls.                                          *)
(***************************************************************************)
\* the kinds of entry left: text, category, scope, importance
MaintPool ==
    LET texts  == <<RuleText, NoteText>>
        scopes == <<GlobalScope, OwnScope>>
        ranks  == << <<"fact", 50>>, <<"decision", 50>>, <<"decision", 100>> >>
    IN  [n \in 1..12 |->
            <<texts[((n - 1) % 2) + 1], ranks[((n - 1) \div 4) + 1][1],
              scopes[(((n - 1) \div 2) % 2) + 1], ranks[((n - 1) \div 4) + 1][2]>>]

MaintEntry(n, kind) ==
    [ id |-> MemId(n), text |-> to_lowercase(kind[1]), category |-> kind[2],
      scope |-> kind[3], importance |-> kind[4],
      tags |-> normalize_tags_with_defaults(<<>>), timestamp_ms |-> 0,
      embedding |-> None ]

\* the stores the model starts from: up to MaintPreload entries, one list
\* for every choice of kinds
MaintPreloads ==
    LET picks == UNION {[1..n -> 1..Len(MaintPool)] : n \in 0..MaintPreload}
    IN  {[k \in 1..Len(f) |-> MaintEntry(k, MaintPool[f[k]])] :
            f \in {g \in picks : \A k \in 1..(Len(g) - 1) : g[k] <= g[k + 1]}}

MaintInit ==
    /\ allowed_scope_rules = DefaultScopeRules
    /\ forgotten = {}
    /\ clock = 0
    /\ sessions = << >>
    /\ session_counter = 1
    /\ created = {}
    /\ issued = << >>
    /\ acked = << >>
    /\ last = NoRequest
    /\ stream = NoStream
    /\ RuntimeStart({1000})
    /\ \E c \in {AutoMaintenanceEvery - 2, AutoMaintenanceEvery - 1},
          pre \in MaintPreloads :
            /\ entries = pre
            /\ disk = pre
            /\ next_id = c + 1
            /\ auto_store_counter = c
            /\ reply = [NoReply EXCEPT !.pre_writes = c, !.writes = c]
    /\ assigned = << >>

MaintStoreArgs ==
    {StoreArg(RuleText, Some(c), l, FALSE, s) :
        c \in {"fact", "decision"}, l \in {None, Some("critical")},
        s \in {GlobalScope, OwnScope}}

MaintDualArgs ==
    {DualArg(IncidentA, p, None, TRUE, GlobalScope, None) :
        p \in {Some(PrincipleA), Some(PrincipleLong)}}

MaintNext ==
    \/ Tick(StoreTicks)
    \/ MemoryStore(MaintStoreArgs, IoFaults, MaintIds, TRUE)
    \/ MemoryStoreDual(MaintDualArgs, IoFaults, MaintIds + 1)

MaintSpec == MaintInit /\ [][MaintNext]_vars

(***************************************************************************)
(* The same on a store of up to TrimPreload entries of the global scope:   *)
(* enough for a pass that has to delete one of two decisions.              *)
(***************************************************************************)
TrimPreload == 4

TrimPreloads ==
    LET kinds == {n \in 1..Len(MaintPool) : MaintPool[n][3] = GlobalScope}
        picks == UNION {[1..n -> kinds] : n \in 0..TrimPreload}
    IN  {[k \in 1..Len(f) |-> MaintEntry(k, MaintPool[f[k]])] :
            f \in {g \in picks : \A k \in 1..(Len(g) - 1) : g[k] <= g[k + 1]}}

TrimInit ==
    /\ allowed_scope_rules = DefaultScopeRules
    /\ forgotten = {}
    /\ clock = 0
    /\ sessions = << >>
    /\ session_counter = 1
    /\ created = {}
    /\ issued = << >>
    /\ acked = << >>
    /\ last = NoRequest
    /\ stream = NoStream
    /\ RuntimeStart({1000})
    /\ \E c \in {AutoMaintenanceEvery - 2, AutoMaintenanceEvery - 1},
          pre \in TrimPreloads :
            /\ entries = pre
            /\ disk = pre
            /\ next_id = c + 1
            /\ auto_store_counter = c
            /\ reply = [NoReply EXCEPT !.pre_writes = c, !.writes = c]
    /\ assigned = << >>

TrimSpec == TrimInit /\ [][MaintNext]_vars

(***************************************************************************)
(* The memory tools on a store that is empty or holds the two entries of   *)
(* one earlier ungoverned memory_store_dual call, with single-layer        *)
(* governed writes switched on: writes that repeat a stored text.          *)
(***************************************************************************)
\* the server after that dual call, handled at time 0 on an empty store
AfterFirstDual ==
    exec_memory_store_dual(
        [entries |-> <<>>, next_id |-> 1, disk |-> <<>>, io |-> Healthy,
         assigned |-> <<>>],
        0, DualArg(IncidentA, Some(PrincipleA), None, FALSE, GlobalScope, None), 0)

VerifyInit ==
    /\ allowed_scope_rules = DefaultScopeRules
    /\ forgotten = {}
    /\ clock = 0
    /\ sessions = << >>
    /\ session_counter = 1
    /\ created = {}
    /\ issued = << >>
    /\ acked = << >>
    /\ last = NoRequest
    /\ stream = NoStream
    /\ RuntimeStart({1000})
    /\ \E first \in BOOLEAN :
          /\ entries = IF first THEN AfterFirstDual.st.entries ELSE <<>>
          /\ disk = IF first THEN AfterFirstDual.st.disk ELSE <<>>
          /\ next_id = IF first THEN AfterFirstDual.st.next_id ELSE 1
          /\ auto_store_counter = IF first THEN AfterFirstDual.counter ELSE 0
    /\ assigned = << >>
    /\ reply = NoReply

VerifyDualArgs ==
    {DualArg(i, p, None, g, GlobalScope, None) :
        i \in {IncidentA, IncidentB},
        p \in {None, Some(PrincipleA)},
        g \in BOOLEAN}

VerifyStoreArgs ==
    {StoreArg(TechText(IncidentA), None, Some("critical"), g, GlobalScope) :
        g \in BOOLEAN}

VerifyNext ==
    \/ Tick(StoreTicks)
    \/ MemoryStoreDual(VerifyDualArgs, IoFaults, VerifyIds)
    \/ MemoryStore(VerifyStoreArgs, IoFaults, VerifyIds, FALSE)
    \/ MemoryForget(Ids(entries) \cup {UnknownId}, {0, Healthy})

VerifySpec == VerifyInit /\ [][VerifyNext]_vars

(***************************************************************************)
(* Reading and writing under different rule sets.  The database file may   *)
(* hold entries another server wrote, in scopes this one has no rule for.  *)
(***************************************************************************)
\* a scope of a kind is_valid_scope does not know
TeamScope == Scope("team", "x")

AclRuleSets ==
    { DefaultScopeRules,
      <<GlobalScope, Scope("agent", "*")>>,
      <<Scope("*", "*")>>,
      <<TeamScope, GlobalScope>> }

AclEntry(n, scope) ==
    [ id |-> MemId(n), text |-> to_lowercase(NoteText), category |-> "fact",
      scope |-> scope, importance |-> 50,
      tags |-> normalize_tags_with_defaults(<<>>), timestamp_ms |-> 0,
      embedding |-> None ]

AclFile ==
    <<AclEntry(1, GlobalScope), AclEntry(2, OtherAgentScope), AclEntry(3, TeamScope)>>

AclInit ==
    /\ clock = 0
    /\ sessions = << >>
    /\ session_counter = 1
    /\ created = {}
    /\ issued = << >>
    /\ acked = << >>
    /\ last = NoRequest
    /\ stream = NoStream
    /\ RuntimeStart({1000})
    /\ allowed_scope_rules \in AclRuleSets
    /\ forgotten = {}
    /\ \E file \in {<<>>, AclFile} :
          /\ entries = open(file).entries
          /\ disk = file
          /\ next_id = open(file).next_id
          /\ auto_store_counter = Len(Take(Reverse(file), ListAll))
    /\ assigned = << >>
    /\ reply = NoReply

AclScopes == {GlobalScope, OtherAgentScope, TeamScope}

AclStoreArgs ==
    {[StoreArg(t, Some("fact"), None, FALSE, s) EXCEPT !.tags = tags] :
        t \in {NoteText},
        s \in {GlobalScope, OtherAgentScope},
        tags \in {<<>>, << <<"", "cross-domain">> >>,
                  << <<"root-cause", "cross-domain">> >>}}

AclRecallArgs ==
    {RecallArg(q, s, l) :
        q \in {<<"note">>, <<"other", "note">>},
        s \in {None} \cup {Some(x) : x \in AclScopes},
        l \in {None}}

AclListArgs ==
    {[scope |-> s, category |-> None, limit |-> None, offset |-> None] :
        s \in {None} \cup {Some(x) : x \in AclScopes}}

AclNext ==
    \/ MemoryStore(AclStoreArgs, {Healthy}, AclIds, TRUE)
    \/ MemoryRecall(AclRecallArgs)
    \/ MemoryList(AclListArgs)

AclSpec == AclInit /\ [][AclNext]_vars

(***************************************************************************)
(* memory_forget and memory_update, across restarts, on a database file    *)
(* that holds three entries written earlier, one of them in the scope of   *)
(* another agent, which the rules of this agent do not cover.  The file    *)
(* system takes every write.                                               *)
(***************************************************************************)
EditIds == 5

EditFile ==
    <<AclEntry(1, GlobalScope), AclEntry(2, OtherAgentScope), AclEntry(3, GlobalScope)>>

EditInit ==
    /\ clock = 0
    /\ sessions = << >>
    /\ session_counter = 1
    /\ created = {}
    /\ issued = << >>
    /\ acked = << >>
    /\ last = NoRequest
    /\ stream = NoStream
    /\ RuntimeStart({1000})
    /\ allowed_scope_rules = DefaultScopeRules
    /\ forgotten = {}
    /\ entries = open(EditFile).entries
    /\ disk = EditFile
    /\ next_id = open(EditFile).next_id
    /\ auto_store_counter = Len(EditFile)
    /\ assigned = [k \in 1..Len(EditFile) |->
                      [id |-> EditFile[k].id, returned |-> TRUE]]
    /\ reply = NoReply

EditNext ==
    \/ Tick(StoreTicks)
    \/ MemoryForget(Ids(entries) \cup {UnknownId}, {Healthy})
    \/ MemoryUpdate({None, Some(RuleText), Some(<<>>)}, {None, Some("decision")},
                    {TRUE}, {Healthy}, EditIds)
    \/ Reopen

EditSpec == EditInit /\ [][EditNext]_vars

(***************************************************************************)
(* Store, recall, list and forget in one agent's scopes, across restarts.  *)
(***************************************************************************)
FlowInit ==
    /\ clock = 0
    /\ sessions = << >>
    /\ session_counter = 1
    /\ created = {}
    /\ issued = << >>
    /\ acked = << >>
    /\ last = NoRequest
    /\ stream = NoStream
    /\ RuntimeStart({1000})
    /\ allowed_scope_rules = DefaultScopeRules
    /\ forgotten = {}
    /\ entries = <<>>
    /\ disk = <<>>
    /\ next_id = 1
    /\ auto_store_counter = 0
    /\ assigned = << >>
    /\ reply = NoReply

FlowStoreArgs ==
    {StoreArg(t, Some("fact"), None, FALSE, s) :
        t \in {NoteText, RuleText},
        s \in {GlobalScope, OwnScope}}

FlowRecallArgs ==
    {RecallArg(q, s, l) :
        q \in {<<"note">>, <<"other", "note">>},
        s \in {None},
        l \in {None, Some(1)}}

FlowListArgs ==
    {[scope |-> s, category |-> None, limit |-> None, offset |-> None] :
        s \in {None}}

FlowNext ==
    \/ Tick(FlowTicks)
    \/ MemoryStore(FlowStoreArgs, {Healthy}, FlowIds, TRUE)
    \/ MemoryForget(Ids(entries) \cup {UnknownId}, IoFaults)
    \/ MemoryRecall(FlowRecallArgs)
    \/ MemoryList(FlowListArgs)
    \/ Reopen

FlowSpec == FlowInit /\ [][FlowNext]_vars

(***************************************************************************)
(* Writes and recalls that ask for vectors or for the remote rerank, with  *)
(* providers that answer or fail from one call to the next.                *)
(***************************************************************************)
ProviderIds == 3

ProviderInit ==
    /\ clock = 0
    /\ sessions = << >>
    /\ session_counter = 1
    /\ created = {}
    /\ issued = << >>
    /\ acked = << >>
    /\ last = NoRequest
    /\ stream = NoStream
    /\ RuntimeStart({1000})
    /\ allowed_scope_rules = DefaultScopeRules
    /\ forgotten = {}
    /\ entries = <<>>
    /\ disk = <<>>
    /\ next_id = 1
    /\ auto_store_counter = 0
    /\ assigned = << >>
    /\ reply = NoReply

\* use_vector and, when it is set, whether embed_one answers
VectorAsks == {<<FALSE, TRUE>>, <<TRUE, TRUE>>, <<TRUE, FALSE>>}

ProviderStoreArgs ==
    {[StoreArg(t, Some("fact"), None, FALSE, GlobalScope)
         EXCEPT !.use_vector = v[1], !.embed = <<v[2]>>] :
        t \in {NoteText, RuleText},
        v \in VectorAsks}

ProviderDualArgs ==
    {DualArg(IncidentA, Some(PrincipleA), None, FALSE, GlobalScope, Some(e)) :
        e \in {<<TRUE, FALSE>>, <<TRUE, TRUE>>}}

\* the cross-encoder answers, or it fails and the embedding provider returns
\* all, one or none of the passage vectors
RemoteAnswers ==
    {[cross |-> TRUE, docs |-> "all"]}
    \cup [cross : {FALSE}, docs : {"all", "one", "none"}]

\* use_remote and, when it is set, what the providers answer
RemoteAsks ==
    {<<FALSE, [cross |-> TRUE, docs |-> "all"]>>} \cup ({TRUE} \X RemoteAnswers)

ProviderRecallArgs ==
    {[RecallArg(q, None, None)
         EXCEPT !.use_vector = v[1], !.embed = v[2],
                !.use_remote = r[1], !.remote = r[2]] :
        q \in {<<"note">>, <<"note", "rule">>},
        v \in VectorAsks,
        r \in RemoteAsks}

ProviderNext ==
    \/ MemoryStore(ProviderStoreArgs, {Healthy}, ProviderIds, FALSE)
    \/ MemoryStoreDual(ProviderDualArgs, {Healthy}, ProviderIds)
    \/ MemoryUpdate({Some(NoteText), Some(RuleText)}, {None}, BOOLEAN, {Healthy},
                    ProviderIds)
    \/ MemoryRecall(ProviderRecallArgs)

ProviderSpec == ProviderInit /\ [][ProviderNext]_vars

(***************************************************************************)
(* The embedding cache, the rate limiter and a label counter, each called  *)
(* as embed_one and record_recall_dimensions call them.                    *)
(***************************************************************************)
CacheCalls  == 5
CacheTicks  == 3
RateCalls   == 5
RateTicks   == 2
LabelCalls  == 5

\* PRX_EMBED_RATE_LIMIT_RPS of 0.5, 1, 2, 2.5 and 3 requests per second
RateChoices == {500, 1000, 2000, 2500, 3000}

RawLabels == {<<"a">>, <<"A">>, <<" ", "a">>, <<"b">>, <<"/">>, <<"_">>, <<>>,
              <<"1", ":">>}

RuntimeInit(Rates) ==
    /\ clock = 0
    /\ sessions = << >>
    /\ session_counter = 1
    /\ created = {}
    /\ issued = << >>
    /\ acked = << >>
    /\ last = NoRequest
    /\ stream = NoStream
    /\ allowed_scope_rules = DefaultScopeRules
    /\ forgotten = {}
    /\ entries = <<>>
    /\ disk = <<>>
    /\ next_id = 1
    /\ auto_store_counter = 0
    /\ assigned = << >>
    /\ reply = NoReply
    /\ RuntimeStart(Rates)

CacheNext ==
    \/ Tick(CacheTicks)
    \/ CacheGet(CacheCalls)
    \/ CachePut(CacheCalls)

CacheSpec == RuntimeInit({1000}) /\ [][CacheNext]_vars

RateNext ==
    \/ Tick(RateTicks)
    \/ AcquireRateLimit(RateCalls)

RateSpec == RuntimeInit(RateChoices) /\ [][RateNext]_vars

LabelNext == RecordLabel(RawLabels, LabelCalls)

LabelSpec == RuntimeInit({1000}) /\ [][LabelNext]_vars

(***************************************************************************)
(* recall_entries as a function of its arguments: the entry list is drawn  *)
(* from the lists below and every query is applied to it.                  *)
(***************************************************************************)
RecallListLen == 3
RecallLongLen == 20

\* 120 characters that hold the word note
Head120 == Piece(<<"note">>, 120)

\* the kinds of entry: text, category, scope, importance.  Kinds 1 and 2
\* have one signature and so have kinds 3, 4 and 5, whose texts differ
\* after the first 120 characters only.
RecallPool ==
    << <<NoteText, "fact", GlobalScope, 50>>,
       <<NoteText, "fact", GlobalScope, 100>>,
       <<<<Head120>>, "fact", GlobalScope, 50>>,
       <<<<Head120, Piece(<<"rule">>, 4)>>, "fact", GlobalScope, 50>>,
       <<<<Head120, Piece(<<"spec">>, 4)>>, "fact", GlobalScope, 100>>,
       <<NoteText, "decision", GlobalScope, 50>>,
       <<NoteText, "fact", OwnScope, 50>>,
       <<RuleText, "fact", GlobalScope, 50>> >>

\* every list of up to RecallListLen entries, and two lists of RecallLongLen
\* entries, more than the heap of candidates keeps
RecallLists ==
    {[k \in 1..Len(f) |-> MaintEntry(k, RecallPool[f[k]])] :
        f \in UNION {[1..n -> 1..Len(RecallPool)] : n \in 0..RecallListLen}}
    \cup {[k \in 1..RecallLongLen |->
              MaintEntry(k, RecallPool[((k * step) % Len(RecallPool)) + 1])] :
          step \in {1, 3}}

RecallQueries ==
    {[terms |-> t, query_embedding |-> None, scope |-> sc, category |-> c,
      limit |-> l] :
        t \in {<<"note">>, <<"note", "rule">>, <<"rule", "note">>, <<>>},
        sc \in {None, Some(GlobalScope)}, c \in {None, Some("fact")},
        l \in 0..3}
    \cup {[terms |-> t, query_embedding |-> Some(Vector("query", t)),
           scope |-> None, category |-> None, limit |-> l] :
            t \in {<<"note">>, <<>>}, l \in {0, 2}}

RecallInit ==
    /\ clock = 0
    /\ sessions = << >>
    /\ session_counter = 1
    /\ created = {}
    /\ issued = << >>
    /\ acked = << >>
    /\ last = NoRequest
    /\ stream = NoStream
    /\ allowed_scope_rules = DefaultScopeRules
    /\ forgotten = {}
    /\ entries \in RecallLists
    /\ disk = entries
    /\ next_id = Len(entries) + 1
    /\ auto_store_counter = 0
    /\ assigned = << >>
    /\ reply = NoReply
    /\ RuntimeStart({1000})

\* recall_entries(&self.entries, query)
Recall(Queries) ==
    \E query \in Queries :
        /\ measured.op = "none"
        /\ measured' = [measured EXCEPT
               !.op = "recall", !.now = clock, !.pre = query,
               !.value = recall_entries(entries, query, clock)]
        /\ UNCHANGED <<clock, sessVars, storeVars, embed_runtime, recall_scope,
                       handlers>>

RecallNext == Recall(RecallQueries)

RecallSpec == RecallInit /\ [][RecallNext]_vars

(***************************************************************************)
(* Two threads that call memory_store_dual, memory_list and memory_recall  *)
(* on a store that holds the two entries of an earlier memory_store_dual   *)
(* call: a write that repeats the stored incident fails its verification,  *)
(* a governed write with a long rule fails in the principle layer.         *)
(***************************************************************************)
ConcCalls == 2
ConcTicks == 2

ConcDualArgs ==
    {DualArg(IncidentA, None, None, FALSE, GlobalScope, None),
     DualArg(IncidentB, Some(PrincipleLong), None, TRUE, GlobalScope, None),
     DualArg(IncidentB, Some(PrincipleB), None, FALSE, GlobalScope,
             Some(<<TRUE, TRUE>>))}

ConcListArgs == {[scope |-> None, category |-> None, limit |-> None,
                  offset |-> None]}

ConcRecallArgs == {RecallArg(<<"timeout">>, None, Some(5))}

ConcInit ==
    /\ clock = 0
    /\ sessions = << >>
    /\ session_counter = 1
    /\ created = {}
    /\ issued = << >>
    /\ acked = << >>
    /\ last = NoRequest
    /\ stream = NoStream
    /\ allowed_scope_rules = DefaultScopeRules
    /\ forgotten = {}
    /\ entries = AfterFirstDual.st.entries
    /\ disk = AfterFirstDual.st.disk
    /\ next_id = AfterFirstDual.st.next_id
    /\ auto_store_counter = AfterFirstDual.counter
    /\ assigned = << >>
    /\ reply = NoReply
    /\ RuntimeStart({1000})

ConcNext ==
    \/ Call(ConcDualArgs, ConcCalls)
    \/ EnterDual
    \/ Read(ConcListArgs, ConcRecallArgs)
    \/ Gate
    \/ EmbedCacheGet
    \/ EmbedAcquire
    \/ EmbedWake
    \/ EmbedProvider({TRUE})
    \/ LayerAppend
    \/ LayerVerify
    \/ Count
    \/ Rollback
    \/ Respond
    \/ SleepTick(ConcTicks)

ConcSpec == ConcInit /\ [][ConcNext]_vars

----------------------------------------------------------------------------
(* Claims about the session stream manager.                                *)

SessionOps == {"append", "collect", "renew"}

StrictlyIncreasing(s) == \A i, j \in 1..Len(s) : i < j => s[i] < s[j]

SeqsOf(q) == [i \in 1..Len(q) |-> q[i].seq]

Range(s) == {s[i] : i \in 1..Len(s)}

\* C6: in every session the seqs that append hands out are strictly
\* increasing in the order they are handed out (so none is handed out twice),
\* and the queued events are strictly increasing in seq, each of them a seq
\* that was handed out.
C6_SeqStrictlyIncreasing ==
    \A sid \in created :
        /\ StrictlyIncreasing(issued[sid])
        /\ sid \in DOMAIN sessions =>
              /\ StrictlyIncreasing(SeqsOf(sessions[sid].events))
              /\ Range(SeqsOf(sessions[sid].events)) \subseteq Range(issued[sid])
              /\ \A k \in Range(issued[sid]) : k < sessions[sid].next_seq

\* an append got its seq after another append and an ack-carrying collect
C6_Witness ==
    /\ last.op = "append" /\ last.ok /\ last.seq = 2
    /\ last.pre_acked >= 1
    /\ Len(issued[last.sid]) = 2

\* C7 (as claimed): a successful collect returns only events with seq above
\* every ack that an earlier successful collect on the session carried.
C7_AckedNeverReturned ==
    (last.op = "collect" /\ last.ok) =>
        \A i \in 1..Len(last.page.events) :
            last.page.events[i].seq > last.pre_ghost_ack

\* the queue as it must be once the ack of the last collect is applied
QueueAfterAck ==
    IF last.ack = None THEN last.pre_events
    ELSE SelectSeq(last.pre_events,
                   LAMBDA e : e.seq > Max(last.pre_acked, last.ack[1]))

\* C8: a successful collect(from, limit, ack) returns, in increasing seq
\* order, exactly the first min(limit, n) queued events with
\* seq >= effective_from, where effective_from = max(from, oldest seq left
\* after the ack, or next_seq when nothing is left); next_from is the last
\* returned seq + 1, or effective_from when nothing is returned; ack_applied
\* is max(previous acked_seq, ack) when an ack was supplied.
C8_CollectPage ==
    (last.op = "collect" /\ last.ok) =>
        LET st       == sessions[last.sid]
            q        == QueueAfterAck
            oldest   == IF Len(q) = 0 THEN st.next_seq ELSE q[1].seq
            eff      == Max(last.from, oldest)
            eligible == {k \in Range(SeqsOf(q)) : k >= eff}
            got      == SeqsOf(last.page.events)
            n        == Cardinality(eligible)
        IN  /\ st.events = q
            /\ last.page.effective_from = eff
            /\ Len(got) = Min(last.limit, n)
            /\ StrictlyIncreasing(got)
            /\ Range(got) \subseteq eligible
            /\ \A k \in eligible \ Range(got) : \A g \in Range(got) : g < k
            /\ last.page.next_from =
                  (IF Len(got) = 0 THEN eff ELSE got[Len(got)] + 1)
            /\ last.ack # None =>
                  last.page.ack_applied = Some(Max(last.pre_acked, last.ack[1]))

\* the scenario of http_stream_ack_and_sse_work: two events queued,
\* collect(from = 1, ack = 1) returns the second one only
C8_Witness ==
    /\ last.op = "collect" /\ last.ok
    /\ last.from = 1 /\ last.ack = Some(1) /\ Len(last.pre_events) = 2
    /\ SeqsOf(last.page.events) = <<2>>
    /\ last.page.effective_from = 2
    /\ last.page.ack_applied = Some(1)

\* a collect that the limit cuts short
C8_WitnessLimit ==
    /\ last.op = "collect" /\ last.ok /\ last.limit = 1
    /\ Len(last.pre_events) = 2 /\ last.ack = None /\ last.from <= 1
    /\ SeqsOf(last.page.events) = <<1>>

\* C9: an append, collect or renew that finds the session's lease at or
\* before its now fails with NotFound or Expired and leaves the session out
\* of the table; a reference to a session that is out of the table fails;
\* and a session that has left the table never enters it again.
C9_ExpiredStaysGone ==
    /\ []( (last.op \in SessionOps /\ last.pre_present /\ last.pre_lease <= last.now)
              => /\ ~last.ok
                 /\ last.err \in {"NotFound", "Expired"}
                 /\ last.sid \notin DOMAIN sessions )
    /\ []( (last.op \in SessionOps /\ ~last.pre_present)
              => (~last.ok /\ last.err \in {"NotFound", "Expired"}) )
    /\ [][ \A s \in created : s \notin DOMAIN sessions => s \notin DOMAIN sessions' ]_vars

\* a request reached a session whose lease had run out
C9_Witness ==
    /\ last.op \in SessionOps /\ last.sid \in created
    /\ last.pre_present /\ last.pre_lease <= last.now
    /\ ~last.ok

\* C10: a successful append, collect or renew executed at time now leaves
\* the session's lease at now + T and reports that lease; a request that
\* fails, or that names another session, leaves every live session in the
\* table with its lease as it was.
C10_LeaseExtension ==
    /\ []( (last.op \in SessionOps /\ last.ok)
              => /\ last.sid \in DOMAIN sessions
                 /\ sessions[last.sid].lease_expires_ms = last.now + session_ttl_ms
                 /\ last.lease = last.now + session_ttl_ms )
    /\ [][ \A s \in DOMAIN sessions :
              ( /\ sessions[s].lease_expires_ms > clock
                /\ (last'.sid # s \/ ~last'.ok) )
              => /\ s \in DOMAIN sessions'
                 /\ sessions'[s].lease_expires_ms = sessions[s].lease_expires_ms ]_vars

\* a request on one session succeeded while another live session kept an
\* older lease
C10_Witness ==
    /\ last.op \in SessionOps /\ last.ok
    /\ \E s \in DOMAIN sessions :
          /\ s # last.sid
          /\ sessions[s].lease_expires_ms > clock
          /\ sessions[s].lease_expires_ms # last.lease

----------------------------------------------------------------------------
(* Claims about the write pipeline and the storage backend.                *)

InScope(ents, scope) == Cardinality({i \in 1..Len(ents) : ents[i].scope = scope})

\* C1: whenever memory_store_dual returns an error after its technical
\* layer stored the fact (the principle layer failed), no entry with the
\* fact's id exists in storage, neither in the entry list of the backend
\* nor in its database file.
C1_DualFailureLeavesNoFact ==
    (reply.op = "store_dual" /\ ~reply.ok /\ reply.fact # None)
        => reply.fact[1] \notin (Ids(entries) \cup Ids(disk))

\* C2: whenever memory_store_dual returns success, every id it returns
\* belongs to an entry of the backend, in the requested scope, the first of
\* category fact and the second of category decision.
C2_DualSuccessBothExist ==
    (reply.op = "store_dual" /\ reply.ok)
        => \A k \in 1..Len(reply.ids) :
              \E i \in 1..Len(entries) :
                  /\ entries[i].id = reply.ids[k]
                  /\ entries[i].scope = reply.scope
                  /\ entries[i].category = IF k = 1 THEN "fact" ELSE "decision"

\* C3: right after a successful governed write that produced a decision
\* entry, decisions are at most 30% of the entries of that entry's scope.
C3_RatioAfterGovernedDecision ==
    (reply.ok /\ reply.governed /\ reply.decision # None)
        => ~RatioAbove(CountIn(entries, reply.scope, {"decision"}),
                       InScope(entries, reply.scope))

\* C4: a governed decision write into a scope that holds 7 facts and 3
\* decisions is rejected with "decision memory ratio exceeds 30% in current
\* scope" and leaves the entries as they were (stated for calls during
\* which the file system works).
C4_RejectedAtThirtyPercent ==
    (/\ reply.op = "store" /\ reply.governed /\ reply.category = "decision"
     /\ reply.pre_fact = 7 /\ reply.pre_decision = 3 /\ reply.pre_total = 10
     /\ reply.healthy)
        => /\ ~reply.ok
           /\ reply.err = "decision memory ratio exceeds 30% in current scope"
           /\ reply.same

\* C5: no two tool calls return the same id for an entry they stored,
\* whatever was stored, forgotten, updated or re-opened in between, and no
\* two entries share an id.
C5_IdsNeverReused ==
    /\ \A i, j \in 1..Len(assigned) :
          (i # j /\ assigned[i].returned /\ assigned[j].returned)
              => assigned[i].id # assigned[j].id
    /\ \A i, j \in 1..Len(entries) : i # j => entries[i].id # entries[j].id

----------------------------------------------------------------------------
(* Claims about the cap of the event queue.                                *)

\* C11: every session's event queue holds at most EventQueueCap (512)
\* events, and a successful append leaves the queue it found with the new
\* event at its end, less its oldest event when the queue was full.
C11_QueueCapped ==
    /\ \A s \in DOMAIN sessions : Len(sessions[s].events) <= EventQueueCap
    /\ (last.op = "append" /\ last.ok)
          => sessions[last.sid].events =
                Append(IF Len(last.pre_events) >= EventQueueCap
                       THEN Tail(last.pre_events) ELSE last.pre_events,
                       [seq |-> last.seq])

\* an append has found the queue full
C11_Witness ==
    /\ last.op = "append" /\ last.ok
    /\ Len(last.pre_events) = EventQueueCap
    /\ Head(last.pre_events).seq < Head(sessions[last.sid].events).seq
    /\ Len(sessions[last.sid].events) = EventQueueCap

----------------------------------------------------------------------------
(* Claims about automatic maintenance.                                     *)

\* the store_layer_with_rules calls of the last tool call that returned Ok
\* among its first k
OkLayers(k) == Cardinality({j \in 1..k : reply.layers[j].ok})

\* the maintenance passes that ran inside the last tool call
Passes == {k \in 1..Len(reply.layers) : reply.layers[k].pass # None}

PassOf(k) == reply.layers[k].pass[1]

ScopesOf(ents) == {ents[i].scope : i \in 1..Len(ents)}

\* C13: when a maintenance pass returns, in every scope it may access
\* decisions are at most 30% of the entries, or no decision of importance
\* below 1.0 is left and the report has a note naming the scope.
C13_RatioAfterMaintenance ==
    \A k \in Passes :
        \A scope \in {s \in ScopesOf(PassOf(k).before) : can_access_scope(s)} :
            \/ ~RatioAbove(CountIn(PassOf(k).after, scope, {"decision"}),
                           InScope(PassOf(k).after, scope))
            \/ /\ \A i \in 1..Len(PassOf(k).after) :
                      (PassOf(k).after[i].scope = scope
                       /\ PassOf(k).after[i].category = "decision")
                          => PassOf(k).after[i].importance >= 100
               /\ scope \in Elems(PassOf(k).report.notes)

\* a pass has deleted a decision and left a scope above 30%, with a note
C13_Witness ==
    \E k \in Passes :
        /\ PassOf(k).report.rebalance_deleted > 0
        /\ \E scope \in Elems(PassOf(k).report.notes) :
              RatioAbove(CountIn(PassOf(k).after, scope, {"decision"}),
                         InScope(PassOf(k).after, scope))

\* the groups of the dedupe phase of pass k: the entries of the same scope,
\* category and first 16 tokens
GroupOf(ents, e) == {i \in 1..Len(ents) : GroupKey(ents[i]) = GroupKey(e)}

\* the entry of the group of e that the dedupe phase is to keep is among
\* those of highest importance and, of these, among the newest
Best(ents, i) ==
    \A j \in GroupOf(ents, ents[i]) :
        \/ ents[j].importance < ents[i].importance
        \/ /\ ents[j].importance = ents[i].importance
           /\ ents[j].timestamp_ms <= ents[i].timestamp_ms

\* C14: the dedupe phase of a maintenance pass keeps, of every group of
\* more than one entry, exactly one entry, of highest importance and the
\* newest of these, and deletes the others; it leaves the other entries
\* alone; merged_groups is the number of such groups and duplicate_deleted
\* the number of entries deleted.
C14_DedupeKeepsBest ==
    \A k \in Passes :
        LET before  == PassOf(k).before
            deduped == PassOf(k).deduped
            report  == PassOf(k).report
            groups  == {GroupOf(before, before[i]) : i \in 1..Len(before)}
        IN  /\ \A g \in groups :
                  \E i \in g :
                      /\ Best(before, i)
                      /\ \A j \in g : (before[j].id \in Ids(deduped)) <=> (j = i)
            /\ report.merged_groups = Cardinality({g \in groups : Cardinality(g) > 1})
            /\ report.duplicate_deleted = Len(before) - Len(deduped)

\* C14 for the passes during which the file system accepts every write
C14_DedupeKeepsBestHealthy == reply.healthy => C14_DedupeKeepsBest

\* C15: a maintenance pass deletes no entry of importance 1.0: every such
\* entry the pass found is there when it returns.
C15_CriticalNeverDeleted ==
    \A k \in Passes :
        \A i \in 1..Len(PassOf(k).before) :
            PassOf(k).before[i].importance >= 100
                => PassOf(k).before[i].id \in Ids(PassOf(k).after)

----------------------------------------------------------------------------
(* Claims about the write pipeline.                                        *)

VerificationFailed ==
    \E k \in 1..Len(reply.layers) :
        reply.layers[k].err = "post-store recall verification failed"

\* C16: when the recall that verifies a write does not return the new
\* entry, the tool call returns an error and storage, the entry list and
\* the database file, holds exactly the entries it held before the call.
C16_VerifyFailureRollsBack ==
    VerificationFailed
        => /\ ~reply.ok
           /\ entries = reply.pre_entries
           /\ disk = reply.pre_disk

\* C16 for the entry list alone
C16_VerifyFailureRollsBackList ==
    VerificationFailed => (~reply.ok /\ entries = reply.pre_entries)

----------------------------------------------------------------------------
(* Claims about store, recall, list and forget.                            *)

\* the ids memory_store and memory_store_dual returned to their callers
ReturnedIds == {assigned[i].id : i \in {j \in 1..Len(assigned) : assigned[j].returned}}

\* the ids of the entries the last recall or list returned
ItemIds == {reply.items[k].entry.id : k \in 1..Len(reply.items)}

\* the k of a recall: its limit as the handler clamps it
RecallLimit(a) == Min(Max(IF a.limit = None THEN 5 ELSE a.limit[1], 1), 20)

\* the stored entries a recall with arguments a is asked about: the query
\* starts with one of their first 8 compact tokens, and its scope and
\* category, when given, are theirs
AskedAbout(a) ==
    {e \in Elems(entries) :
        /\ e.id \in ReturnedIds
        /\ a.terms # <<>>
        /\ a.terms[1] \in Elems(compact_query(e.text, 8))
        /\ a.scope = None \/ a.scope = Some(e.scope)
        /\ a.category = None \/ a.category = Some(e.category)}

\* C17: the ids successful stores returned are pairwise different, and a
\* recall whose query contains one of the first 8 compact tokens of a
\* stored text returns the id of that entry among its top k results (k at
\* least the number of entries stored).
C17_StoredIsFreshAndRecalled ==
    /\ \A i, j \in 1..Len(assigned) :
          (i < j /\ assigned[i].returned /\ assigned[j].returned)
              => assigned[i].id # assigned[j].id
    /\ (reply.op = "recall" /\ Len(entries) <= RecallLimit(reply.query[1]))
          => \A e \in AskedAbout(reply.query[1]) : e.id \in ItemIds

\* C17, the recall alone, for the entries whose first 120 characters no
\* other stored entry of the same scope and category has
C17_RecalledWhenTextIsNew ==
    (reply.op = "recall" /\ Len(entries) <= RecallLimit(reply.query[1]))
        => \A e \in AskedAbout(reply.query[1]) :
              (\A i \in 1..Len(entries) :
                  signature(entries[i]) = signature(e) => entries[i] = e)
                  => e.id \in ItemIds

\* C18: once memory_forget has answered deleted = true for an id, no list
\* or recall returns an entry with that id, another forget of the id answers
\* deleted = false, and the forget that deleted it left every other entry
\* as it was.
C18_ForgottenStaysGone ==
    /\ reply.op \in {"recall", "list"} => ItemIds \cap forgotten = {}
    /\ (reply.op = "forget" /\ reply.target[1] \in reply.pre_forgotten)
          => reply.err = "Ok(false)"
    /\ (reply.op = "forget" /\ reply.err = "Ok(true)")
          => entries = SelectSeq(reply.pre_entries,
                                 LAMBDA e : e.id # reply.target[1])

\* the ids store() gave out more than once
Reassigned ==
    {assigned[i].id : i \in {j \in 1..Len(assigned) :
        \E k \in 1..Len(assigned) : k # j /\ assigned[k].id = assigned[j].id}}

\* C18 for the ids no store was given a second time
C18_ForgottenStaysGoneUnlessReassigned ==
    /\ reply.op \in {"recall", "list"}
          => ItemIds \cap (forgotten \ Reassigned) = {}
    /\ (reply.op = "forget" /\ reply.target[1] \in reply.pre_forgotten \ Reassigned)
          => reply.err = "Ok(false)"
    /\ (reply.op = "forget" /\ reply.err = "Ok(true)")
          => entries = SelectSeq(reply.pre_entries,
                                 LAMBDA e : e.id # reply.target[1])

----------------------------------------------------------------------------
(* Claims about the access rules.                                          *)

\* C19: every entry memory_recall returns is in a scope the agent's rules
\* give access to: the named scope, which passes the access check, when the
\* request names one, and a scope one of the rules matches when it names
\* none.
C19_RecallRespectsAcl ==
    reply.op = "recall"
        => \A k \in 1..Len(reply.items) :
              IF reply.query[1].scope # None
              THEN /\ can_access_scope(reply.query[1].scope[1])
                   /\ reply.items[k].entry.scope = reply.query[1].scope[1]
              ELSE \E r \in 1..Len(accessible_scope_rules) :
                      rule_matches_scope(accessible_scope_rules[r],
                                         reply.items[k].entry.scope)

\* the store holds entries of a scope no rule matches and of a scope that
\* fails the access check, their text matches the query, and the recall
\* returned entries
C19_Witness ==
    /\ reply.op = "recall"
    /\ reply.items # <<>>
    /\ reply.query[1].scope = None
    /\ \E i \in 1..Len(entries) :
          /\ reply.query[1].terms[1] \in Elems(Tokens(entries[i].text))
          /\ ~can_access_scope(entries[i].scope)
          /\ ~\E r \in 1..Len(accessible_scope_rules) :
                 rule_matches_scope(accessible_scope_rules[r], entries[i].scope)

WriteDenied == "agent cannot write to other agent scope without cross-domain tag"

\* a memory_store into the scope of another agent that the rules give
\* access to
WriteToOtherAgent ==
    /\ reply.op = "store"
    /\ reply.scope.kind = "agent"
    /\ reply.scope # OwnScope
    /\ can_access_scope(reply.scope)

\* C20: a write into agent:<X>, X not the calling agent, passes the write
\* check exactly when the request carries the tag cross-domain or
\* root-cause:cross-domain; without such a tag it is rejected with the ACL
\* error and stores nothing.
C20_CrossDomainWrite ==
    WriteToOtherAgent
        => IF \E i \in 1..Len(reply.tags) :
                 reply.tags[i] \in {<<"", "cross-domain">>,
                                    <<"root-cause", "cross-domain">>}
           THEN reply.err # WriteDenied
           ELSE /\ ~reply.ok
                /\ reply.err = WriteDenied
                /\ entries = reply.pre_entries
                /\ disk = reply.pre_disk

\* C20 with root-cause:cross-domain as the only tag that opens the scope
C20_RootCauseCrossDomainWrite ==
    WriteToOtherAgent
        => IF \E i \in 1..Len(reply.tags) :
                 reply.tags[i] = <<"root-cause", "cross-domain">>
           THEN reply.ok
           ELSE /\ ~reply.ok
                /\ reply.err = WriteDenied
                /\ entries = reply.pre_entries
                /\ disk = reply.pre_disk

\* what the last recall returns when it does not ask for the remote rerank:
\* the results of the local fusion
LocalItems ==
    exec_memory_recall(Backend(Healthy), auto_store_counter,
                       [reply.query[1] EXCEPT !.use_remote = FALSE], clock).items

\* the last recall asked for the remote rerank, the local fusion found
\* entries, the cross-encoder failed and so did the embedding fallback
RerankFailed ==
    /\ reply.op = "recall"
    /\ ~reply.embed_err
    /\ reply.query[1].use_remote
    /\ ~reply.query[1].remote.cross
    /\ reply.query[1].remote.docs # "all"
    /\ LocalItems # <<>>
    /\ reply.query[1].remote.docs = "one" => Len(LocalItems) > 1

\* the cross-encoder failed and the embedding fallback re-scored the results
FellBack ==
    /\ reply.op = "recall"
    /\ ~reply.embed_err
    /\ reply.query[1].use_remote
    /\ ~reply.query[1].remote.cross
    /\ LocalItems # <<>>
    /\ ~RerankFailed

\* C21: when the embedding provider or the rerank provider fails during a
\* memory_recall, the call still succeeds, carries a warning and returns the
\* results of the local fusion; it never becomes an RPC error.
C21_ProviderFailureIsWarning ==
    (reply.op = "recall" /\ (reply.embed_err \/ RerankFailed \/ FellBack))
        => /\ reply.ok
           /\ reply.warning # None
           /\ ItemIds = {LocalItems[k].entry.id : k \in 1..Len(LocalItems)}

\* C21 for the failures of the rerank alone
C21_RerankFailureIsWarning ==
    (RerankFailed \/ FellBack)
        => /\ reply.ok
           /\ reply.warning # None
           /\ ItemIds = {LocalItems[k].entry.id : k \in 1..Len(LocalItems)}

\* every stored embedding is the vector of the text it is stored with
NoStaleEmbedding ==
    \A k \in 1..Len(entries) :
        entries[k].embedding # None
            => entries[k].embedding[1] = Vector("passage", entries[k].text)

\* C22: a write that asks for a vector and whose passage embedding fails
\* returns an error, appends no entry (none is stored without, or with a
\* stale, embedding) and leaves the auto-maintenance counter as it was.
C22_EmbeddingFailureFailsWrite ==
    /\ (reply.op \in {"store", "store_dual", "update"} /\ reply.embed_err)
           => /\ ~reply.ok
              /\ entries = reply.pre_entries
              /\ reply.writes = reply.pre_writes
    /\ NoStaleEmbedding

\* C22 for memory_store, and for memory_store_dual up to the layer whose
\* embedding fails: the layers before it are counted, and rolled back
C22_LayerEmbeddingFailure ==
    (reply.op \in {"store", "store_dual"} /\ reply.embed_err)
        => /\ ~reply.ok
           /\ entries = reply.pre_entries
           /\ disk = reply.pre_disk
           /\ reply.writes = reply.pre_writes + Len(reply.layers) - 1
           /\ reply.op = "store" => reply.writes = reply.pre_writes

\* the events the session of the stream has taken since the stream was opened
IssuedSinceOpen ==
    IF stream.sid \in created
    THEN {issued[stream.sid][k] : k \in (stream.pre_issued + 1)..Len(issued[stream.sid])}
    ELSE {}

\* C23: while an SSE stream is open the server goes on handling other
\* connections: an event appended to the session through a POST /mcp/stream
\* that arrives during the wait is delivered on the open stream.  Stated for
\* a stream that polled again after the request arrived, that still had room
\* for an event, and whose from is not beyond the seq of the new event.
C23_AppendDuringStreamIsDelivered ==
    ( /\ stream.pc = "closed"
      /\ stream.out = "cursor"
      /\ stream.arrived > 0
      /\ stream.polled
      /\ stream.from <= stream.pre_issued + 1 )
        => \E seq \in IssuedSinceOpen :
               \E k \in 1..Len(stream.sent) : stream.sent[k] = seq

C25_StreamTerminates ==
    /\ (stream.pc = "polling") ~> (stream.pc = "closed")
    /\ [](stream.deadline - stream.opened <= 60000)
    /\ [][(stream.pc = "polling"
             /\ (Len(stream.sent) >= stream.limit \/ clock >= stream.deadline))
            => sessions' = sessions]_vars
    /\ [](stream.pc = "closed"
            => IF stream.out = "cursor"
               THEN stream.cursor.next_from
                       = IF stream.sent = <<>> THEN stream.cursor.effective_from
                         ELSE stream.sent[Len(stream.sent)] + 1
               ELSE /\ stream.out \in {"error", "http_error"}
                    /\ stream.sid \notin DOMAIN sessions)

\* a stream that delivered events, waited out the longest deadline and
\* ended with its cursor
C25_Witness ==
    /\ stream.pc = "closed"
    /\ stream.out = "cursor"
    /\ stream.sent # <<>>
    /\ stream.remaining > 0
    /\ stream.wait_ms = 60000
    /\ clock >= stream.deadline

(***************************************************************************)
(* C26: after cache_put(k, v) at time t, with no eviction and no overwrite *)
(* of k since, a cache_get(k) at t' with t' - t < TTL returns v, and a     *)
(* cache_get(k) at t' with t' - t > TTL returns a miss and leaves no entry *)
(* for k in the cache.                                                     *)
(***************************************************************************)
\* the cache_get handled last asked for a key whose last put is still in force
GetAfterPut ==
    /\ measured.op = "get"
    /\ measured.pre_puts[measured.key] # None
    /\ measured.pre_puts[measured.key][1].live

PutAge == measured.now - measured.pre_puts[measured.key][1].t

C26_CacheTtl ==
    GetAfterPut =>
        /\ PutAge < embed_runtime.ttl_ms =>
               measured.value = Some(measured.pre_puts[measured.key][1].value)
        /\ PutAge > embed_runtime.ttl_ms =>
               /\ measured.value = None
               /\ measured.key \notin DOMAIN embed_runtime.entries
               /\ \A k \in 1..Len(embed_runtime.lru) :
                      embed_runtime.lru[k] # measured.key

\* a get after the TTL found the entry of the put and removed it
C26_Witness ==
    /\ GetAfterPut
    /\ PutAge > embed_runtime.ttl_ms
    /\ measured.key \in DOMAIN measured.pre.entries
    /\ measured.value = None

\* a get before the TTL, with another call in between, returned the value
C26_HitWitness ==
    /\ GetAfterPut
    /\ PutAge > 0 /\ PutAge < embed_runtime.ttl_ms
    /\ measured.value # None
    /\ measured.calls > 2

(***************************************************************************)
(* C27: the cache never holds more than capacity entries; a cache_put that *)
(* overflows the capacity evicts the key inserted or hit least recently,   *)
(* never the key just put, and cache_evictions grows by one per entry      *)
(* evicted.                                                                *)
(***************************************************************************)
\* the cache_put handled last found the cache full and brought a new key
PutOverflows ==
    /\ measured.op = "put"
    /\ measured.key \notin DOMAIN measured.pre.entries
    /\ Cardinality(DOMAIN measured.pre.entries) = measured.pre.capacity

Evicted == (DOMAIN measured.pre.entries \cup {measured.key})
               \ DOMAIN embed_runtime.entries

LeastRecentlyUsed ==
    CHOOSE k \in DOMAIN measured.pre.entries :
        \A other \in DOMAIN measured.pre.entries :
            measured.pre_used[k] <= measured.pre_used[other]

C27_CacheCapacityLru ==
    /\ Cardinality(DOMAIN embed_runtime.entries) <= embed_runtime.capacity
    /\ PutOverflows =>
           /\ Evicted = {LeastRecentlyUsed}
           /\ measured.key \in DOMAIN embed_runtime.entries
    /\ measured.op = "put" =>
           embed_runtime.stats.cache_evictions =
               measured.pre.stats.cache_evictions + Cardinality(Evicted)
    /\ measured.op = "get" =>
           embed_runtime.stats.cache_evictions =
               measured.pre.stats.cache_evictions

\* a put evicted a key that was inserted before another one but hit after it
C27_Witness ==
    /\ PutOverflows
    /\ Evicted # {}
    /\ \E k \in DOMAIN measured.pre.entries :
           /\ k \in DOMAIN embed_runtime.entries
           /\ measured.pre_puts[k] # None
           /\ \A e \in Evicted :
                  /\ measured.pre_puts[e] # None
                  /\ measured.pre_puts[k][1].t <= measured.pre_puts[e][1].t
                  /\ measured.pre_used[k] > measured.pre_used[e]
    /\ embed_runtime.stats.cache_evictions > 0

(***************************************************************************)
(* C28: from a full bucket of N tokens refilled at R tokens per second, N  *)
(* acquisitions at one instant each return a wait of 0 and the (N+1)th at  *)
(* that instant returns a wait of at least 900/R milliseconds.             *)
(* measured.burst holds the waits of the acquisitions made at one instant, *)
(* the first of which found the bucket full; the bucket holds a whole      *)
(* number of tokens when its rate is a whole number.                       *)
(***************************************************************************)
WholeBucket == embed_runtime.max_tokens % OneToken = 0

BucketSize == embed_runtime.max_tokens \div OneToken

\* wait >= 900 / R, with R in thousandths of a token per second
AtLeast900OverR(wait_ms) == wait_ms * embed_runtime.refill_per_sec >= 900000

C28_FractionalBucket ==
    /\ measured.op = "acquire"
    /\ ~WholeBucket
    /\ Len(measured.burst) = BucketSize + 1
    /\ measured.wait_ms > 0
    /\ ~AtLeast900OverR(measured.wait_ms)

(***************************************************************************)
(* C29: a label counter with limit L never stores more than L distinct     *)
(* labels; a record of a label that is not stored while L labels are       *)
(* stored adds one to overflow and stores nothing; and the stored counts   *)
(* add up to the number of record calls minus overflow.                    *)
(***************************************************************************)
RECURSIVE SumCounts(_, _)
SumCounts(counts, labels) ==
    IF labels = {} THEN 0
    ELSE LET l == CHOOSE x \in labels : TRUE
         IN  counts[l] + SumCounts(counts, labels \ {l})

\* the record handled last brought a label the full counter did not hold
RecordBeyondLimit ==
    /\ measured.op = "record"
    /\ sanitize_label_value(measured.label) \notin DOMAIN measured.pre.counts
    /\ Cardinality(DOMAIN measured.pre.counts) = measured.pre.max_labels

C29_LabelCounterBounded ==
    /\ Cardinality(DOMAIN recall_scope.counts) <= recall_scope.max_labels
    /\ RecordBeyondLimit =>
           /\ recall_scope.overflow = measured.pre.overflow + 1
           /\ recall_scope.counts = measured.pre.counts
    /\ SumCounts(recall_scope.counts, DOMAIN recall_scope.counts)
           = measured.records - recall_scope.overflow

\* a record beyond the limit, after a label was recorded twice under two
\* spellings and another record had overflowed already
C29_Witness ==
    /\ RecordBeyondLimit
    /\ recall_scope.overflow = 2
    /\ \E l \in DOMAIN recall_scope.counts : recall_scope.counts[l] = 2
    /\ measured.records = 5

(***************************************************************************)
(* C30: recall_entries returns at most limit results, in non-increasing    *)
(* score order, each in the requested scope and category, no two with the  *)
(* same content signature, and of the entries with one signature the one   *)
(* kept has the highest score.                                             *)
(***************************************************************************)
\* the score recall_entries gives an entry on its own, None when the entry
\* is not a result of the query
ScoreAlone(e) ==
    LET Alone(r) == IF r = <<>> THEN None ELSE Some(r[1].score)
    IN  Alone(recall_entries(<<e>>, [measured.pre EXCEPT !.limit = 1],
                             measured.now))

RecallOrdered(results) ==
    \A k \in 1..(Len(results) - 1) : results[k].score >= results[k + 1].score

RecallFiltered(results) ==
    \A k \in 1..Len(results) :
        /\ measured.pre.scope # None =>
               results[k].entry.scope = measured.pre.scope[1]
        /\ measured.pre.category # None =>
               results[k].entry.category = measured.pre.category[1]

RecallDistinct(results) ==
    \A j, k \in 1..Len(results) :
        signature(results[j].entry) = signature(results[k].entry) => j = k

RecallKeepsBest(results) ==
    \A k \in 1..Len(results) :
        /\ \E i \in 1..Len(entries) : entries[i] = results[k].entry
        /\ ScoreAlone(results[k].entry) = Some(results[k].score)
        /\ \A i \in 1..Len(entries) :
               (/\ signature(entries[i]) = signature(results[k].entry)
                /\ ScoreAlone(entries[i]) # None)
                   => ScoreAlone(entries[i])[1] <= results[k].score

RecallContract(results, most) ==
    /\ Len(results) <= most
    /\ RecallOrdered(results)
    /\ RecallFiltered(results)
    /\ RecallDistinct(results)
    /\ RecallKeepsBest(results)

\* the claim as it stands: at most limit results
C30_AtMostLimit ==
    measured.op = "recall" => RecallContract(measured.value, measured.pre.limit)

\* as amended: at most limit results, one when limit is 0
C30_RecallContract ==
    measured.op = "recall" =>
        RecallContract(measured.value, Max(measured.pre.limit, 1))

\* limit results, cut from more; an entry left out for its signature scores
\* less than the one kept
C30_Witness ==
    /\ measured.op = "recall"
    /\ Len(measured.value) = measured.pre.limit
    /\ Len(measured.value) >= 2
    /\ measured.value[1].score > measured.value[2].score
    /\ \E i \in 1..Len(entries) :
           /\ signature(entries[i]) = signature(measured.value[1].entry)
           /\ ScoreAlone(entries[i]) # None
           /\ ScoreAlone(entries[i])[1] < measured.value[1].score
    /\ \E i \in 1..Len(entries) :
           /\ ScoreAlone(entries[i]) # None
           /\ \A k \in 1..Len(measured.value) :
                  signature(entries[i]) # signature(measured.value[k].entry)

\* more candidates than the heap keeps
C30_HeapWitness ==
    /\ measured.op = "recall"
    /\ Len(entries) = RecallLongLen
    /\ Len(measured.value) >= 2
    /\ Cardinality({i \in 1..Len(entries) : ScoreAlone(entries[i]) # None}) > 16

(***************************************************************************)
(* C31: each successful governed write adds exactly one to                 *)
(* auto_store_counter, a write that ends in an error leaves it unchanged   *)
(* (a dual-layer write that is rolled back included), and no two writes    *)
(* obtain the same counter value.  A write is one pass of                  *)
(* store_layer_with_rules: reply.writes counts the passes that returned    *)
(* Ok, and a memory_store_dual call makes one pass per layer.              *)
(***************************************************************************)
GovernedWrite(r) == r.op \in {"store", "store_dual"} /\ r.governed

\* the governed write handled by this step returned an error, on a file
\* system that accepted every write
FailedWrite ==
    /\ GovernedWrite(reply') /\ ~reply'.ok
    /\ reply'.healthy /\ reply'.pre_entries = entries

C31_FailedWriteKeepsCounter ==
    [][FailedWrite => auto_store_counter' = auto_store_counter]_vars

\* one more for every pass that returned Ok, so every pass has its own value
C31_OnePerStoredLayer ==
    [][(reply'.op \in {"store", "store_dual"} /\ reply'.writes # reply.writes)
          => auto_store_counter' - auto_store_counter
                 = reply'.writes - reply.writes]_vars

(***************************************************************************)
(* C32: while a write handler stands between the append of an entry and    *)
(* the end of its verification or rollback, no other handler is inside a   *)
(* read or a write of the store, no list or recall returns an entry that   *)
(* is pending, and no list or recall ever returned an entry that was       *)
(* rolled back.                                                            *)
(***************************************************************************)
InsideStore(t) == handlers.th[t].pc \notin {"idle", "blocked"}

C32_PendingEntryInvisible ==
    /\ handlers.exposed = {}
    /\ handlers.observed \cap handlers.rolled_back = {}
    /\ \A t \in Threads, u \in Threads :
           (t # u /\ handlers.th[t].pending # {}) => ~InsideStore(u)

\* a list or recall that found the mutex held while an entry was pending
\* has returned, the entry was rolled back, and the reader saw the stored
\* entries without it
C32_Witness ==
    \E t \in Threads :
        /\ handlers.th[t].op \in {"list", "recall"}
        /\ handlers.th[t].pc = "idle"
        /\ handlers.th[t].waited \cap handlers.rolled_back # {}
        /\ handlers.th[t].seen # {}

\* the rollback was that of the technical layer after the principle layer
\* failed
C32_DualRollbackWitness ==
    \E t \in Threads, u \in Threads :
        /\ handlers.th[t].op \in {"list", "recall"}
        /\ handlers.th[t].pc = "idle"
        /\ handlers.th[t].waited \cap handlers.rolled_back # {}
        /\ handlers.th[u].op = "store_dual"
        /\ handlers.th[u].err
               = "principle layer store failed, rolled back technical layer"

(***************************************************************************)
(* C33: a thread that sleeps for the rate limit holds no mutex.            *)
(***************************************************************************)
C33_NoSleepUnderLock ==
    \A t \in Threads : handlers.th[t].pc = "sleeping" => handlers.th[t].held = {}

\* the runtime mutex is not held during the sleep: it is taken and dropped
\* inside a step
C33_SleepWithStoreLock ==
    \E t \in Threads :
        /\ handlers.th[t].pc = "sleeping"
        /\ handlers.th[t].held = {"store"}

(***************************************************************************)
(* C34: in the rebalance phase of a maintenance pass, in every scope the   *)
(* pass may access and whose decisions are above 30% of its entries, the   *)
(* entries deleted are decisions of importance below 1.0, none of them     *)
(* ranks above a decision of importance below 1.0 that is kept (rank:      *)
(* importance, then timestamp), the ratio was still above 0.30 before the  *)
(* last of them was deleted, and afterwards the ratio is at most 0.30 or   *)
(* no decision of importance below 1.0 is left; in the other scopes the    *)
(* phase deletes nothing.                                                  *)
(***************************************************************************)
IdsOf(ents) == {ents[i].id : i \in 1..Len(ents)}

\* the entries of a scope that the rebalance phase of a pass found and
\* those it deleted
RebalanceFound(p, scope) ==
    {p.deduped[i] : i \in {j \in 1..Len(p.deduped) : p.deduped[j].scope = scope}}

RebalanceDeleted(p, scope) ==
    {e \in RebalanceFound(p, scope) : e.id \notin IdsOf(p.after)}

NonCriticalDecisions(found) ==
    {e \in found : e.category = "decision" /\ e.importance < 100}

RanksAtMost(d, e) ==
    \/ d.importance < e.importance
    \/ d.importance = e.importance /\ d.timestamp_ms <= e.timestamp_ms

ShortestPrefix(found, deleted) ==
    LET decisions == Cardinality({e \in found : e.category = "decision"})
        total     == Cardinality(found)
        n         == Cardinality(deleted)
    IN  /\ deleted \subseteq NonCriticalDecisions(found)
        /\ \A d \in deleted, e \in NonCriticalDecisions(found) \ deleted :
               RanksAtMost(d, e)
        /\ n > 0 => RatioAbove(decisions - (n - 1), total - (n - 1))
        /\ \/ ~RatioAbove(decisions - n, total - n)
           \/ deleted = NonCriticalDecisions(found)

RebalancedAsClaimed(p) ==
    \A scope \in ScopesOf(p.deduped) :
        IF /\ can_access_scope(scope)
           /\ RatioAbove(CountIn(p.deduped, scope, {"decision"}),
                         InScope(p.deduped, scope))
        THEN ShortestPrefix(RebalanceFound(p, scope), RebalanceDeleted(p, scope))
        ELSE RebalanceDeleted(p, scope) = {}

C34_RebalanceShortestPrefix ==
    \A k \in Passes : RebalancedAsClaimed(PassOf(k))

\* the same of the passes of a tool call during which the file system
\* took every write
C34_RebalanceOnHealthyFile ==
    reply.healthy => \A k \in Passes : RebalancedAsClaimed(PassOf(k))

\* a forget of the pass failed in the write of the file, and the pass
\* removed more entries from the list than it counted
C34_UncountedRemoval ==
    \E k \in Passes :
        /\ ~reply.healthy
        /\ Cardinality(IdsOf(PassOf(k).deduped) \ IdsOf(PassOf(k).after))
              > PassOf(k).report.rebalance_deleted

\* a pass stopped with a decision of importance below 1.0 left, after it
\* deleted another
C34_Witness ==
    \E k \in Passes :
        \E scope \in ScopesOf(PassOf(k).deduped) :
            /\ RebalanceDeleted(PassOf(k), scope) # {}
            /\ NonCriticalDecisions(RebalanceFound(PassOf(k), scope))
                  \ RebalanceDeleted(PassOf(k), scope) # {}

(***************************************************************************)
(* C35: a successful memory_update leaves the entries it found, less the   *)
(* one with the id it was given, followed by one new entry (so the number  *)
(* of entries is unchanged and the old id is gone), and the id of the new  *)
(* entry was never assigned to an entry before.                            *)
(***************************************************************************)
UpdateOk == reply.op = "update" /\ reply.ok

\* the ids assigned before the store call of the update handled last
AssignedBefore == {assigned[i].id : i \in 1..(Len(assigned) - 1)}

C35_UpdateDeletesAndAppends ==
    UpdateOk =>
        /\ Len(entries) = Len(reply.pre_entries)
        /\ reply.target[1] \notin Ids(entries)
        /\ SubSeq(entries, 1, Len(entries) - 1)
              = SelectSeq(reply.pre_entries, LAMBDA e : e.id # reply.target[1])
        /\ entries[Len(entries)].id = reply.ids[1]
        /\ reply.ids[1] \notin Ids(reply.pre_entries)

C35_UpdateIdNeverUsed ==
    UpdateOk => reply.ids[1] \notin AssignedBefore

C35_UpdateNewId == C35_UpdateDeletesAndAppends /\ C35_UpdateIdNeverUsed

(***************************************************************************)
(* C38: a memory_update that returns an error leaves the entry list and    *)
(* the database file as it found them; in particular the entry it was to   *)
(* replace is still stored, unchanged.                                     *)
(***************************************************************************)
C38_FailedUpdateKeepsEntry ==
    (reply.op = "update" /\ ~reply.ok /\ reply.healthy)
        => entries = reply.pre_entries /\ disk = reply.pre_disk

\* the errors raised before the forget leave the store alone
C38_RejectedUpdateKeepsEntry ==
    (/\ reply.op = "update" /\ ~reply.ok /\ reply.healthy
     /\ reply.err # "invalid input: text cannot be empty")
        => entries = reply.pre_entries /\ disk = reply.pre_disk

(***************************************************************************)
(* C39: a tool call removes no entry of a scope the agent may not access.  *)
(***************************************************************************)
RemovedByCall ==
    {e \in Elems(reply.pre_entries) : e.id \notin Ids(entries)}

C39_RemovesOnlyPermitted ==
    reply.op \in {"forget", "update", "store", "store_dual"}
        => \A e \in RemovedByCall : can_access_scope(e.scope)

\* memory_update and the maintenance pass of a write keep to the scopes
\* the agent may access
C39_UpdateAndMaintenancePermitted ==
    reply.op \in {"update", "store", "store_dual"}
        => \A e \in RemovedByCall : can_access_scope(e.scope)

(***************************************************************************)
(* C36: an append, collect or renew on a session that was created and      *)
(* whose lease has lapsed is answered 410 session_expired; on an id that   *)
(* was never created it is answered 404 session_not_found.                 *)
(***************************************************************************)
\* the HttpResponse of a SessionAccessError
session_error_response(err) ==
    CASE err = "NotFound" -> [status |-> 404, error |-> "session_not_found"]
      [] err = "Expired"  -> [status |-> 410, error |-> "session_expired"]
      [] OTHER            -> [status |-> 500, error |-> "session_internal_error"]

\* the request handled last was made on a created session whose lease had
\* lapsed: the handler found it lapsed, or an earlier cleanup removed it
OnLapsedSession ==
    /\ last.op \in SessionOps
    /\ last.sid \in created
    /\ \/ last.pre_present /\ last.pre_lease <= last.now
       \/ ~last.pre_present

OnUnknownSession == last.op \in SessionOps /\ last.sid \notin created

C36_UnknownIsNotFound ==
    OnUnknownSession =>
        /\ ~last.ok
        /\ session_error_response(last.err)
              = [status |-> 404, error |-> "session_not_found"]

C36_LapsedIsExpired ==
    OnLapsedSession =>
        /\ ~last.ok
        /\ session_error_response(last.err)
              = [status |-> 410, error |-> "session_expired"]

C36_ExpiredOrNotFound == C36_LapsedIsExpired /\ C36_UnknownIsNotFound

\* no request is ever answered 410
C36_NeverExpired ==
    last.op \in SessionOps => session_error_response(last.err).status # 410

(***************************************************************************)
(* C37: a memory_store_dual that returns an error leaves the entry list    *)
(* and the database file as it found them.                                 *)
(***************************************************************************)
\* the call found the entry list and the file in agreement, and the file
\* system took every write of the call
FailedDual ==
    /\ reply.op = "store_dual" /\ ~reply.ok
    /\ reply.healthy /\ reply.pre_entries = reply.pre_disk

C37_FailedDualLeavesStorage ==
    FailedDual => entries = reply.pre_entries /\ disk = reply.pre_disk

\* the same of the failed calls whose technical layer ran no maintenance
\* pass
C37_FailedDualWithoutMaintenance ==
    (FailedDual /\ Passes = {})
        => entries = reply.pre_entries /\ disk = reply.pre_disk

(***************************************************************************)
(* C40: of the acquisitions made at one instant after the bucket ran       *)
(* empty, each is told to wait at least 1000/R milliseconds longer than    *)
(* the one before it.                                                      *)
(***************************************************************************)
\* later - earlier >= 1000 / R, with R in thousandths of a token per second
Spaced(earlier, later) ==
    (later - earlier) * embed_runtime.refill_per_sec >= 1000 * 1000

C40_BurstSpaced ==
    measured.op = "acquire" =>
        \A k \in 1..(Len(measured.burst) - 1) :
            measured.burst[k] > 0 => Spaced(measured.burst[k], measured.burst[k + 1])

\* two acquisitions at one instant on an empty bucket were told the same
\* wait
C40_SameWait ==
    /\ measured.op = "acquire"
    /\ \E k \in 1..(Len(measured.burst) - 1) :
          measured.burst[k] > 0 /\ measured.burst[k + 1] = measured.burst[k]

\* every acquisition on an empty bucket is told to wait
C40_EmptyBucketWaits ==
    measured.op = "acquire" =>
        \A k \in 1..(Len(measured.burst) - 1) :
            measured.burst[k] > 0 => measured.burst[k + 1] > 0

=============================================================================
